---- MODULE Spec2Model ----
(***************************************************************************)
(* Model of the network-service abstraction of anemo_sample                *)
(* (crates/network-service): AnemoNetworkService's lifecycle, broadcast,   *)
(* unicast and node discovery over the process-wide registry GLOBAL_NODES, *)
(* with tokio's FIFO-fair reader/writer locks made explicit.               *)
(*                                                                         *)
(* Each client call runs on a task.  A task step is the code between two   *)
(* suspension points: it starts by obtaining the lock the code awaits (or  *)
(* by the return of a transport call) and runs up to the next one.         *)
(***************************************************************************)
EXTENDS Integers, Sequences, FiniteSets, TLC

\* ---------------------------------------------------------------- bounds
NumSvc == 3
NumTask == 2
MaxKnown == 1
MaxExclude == 1
MaxInbound == 2
MaxPublish == 5
NumSub == 2
Capacity == 2
MaxCapacity == 3
MaxBusPublish == 3
TimestampBits == 3
MaxTimeDiff == 1
MinSyncInterval == 2
MaxSyncInterval == 3
MaxClock == 2
MaxTsCalls == 2
NumRequestId == 2
MaxHbTasks == 2
MaxHbCalls == 5
MaxSequence == 3
MaxInterval == 2
NumLockTask == 3
NumLockSvc == 1
MaxChatCalls == 3
NumChatPeer == 2
NumUsername == 2

Svc == 1..NumSvc
Task == 1..NumTask
\* NetworkMessage::new mints a fresh id (Uuid::new_v4) for every message: the
\* message a caller hands to the call running on task t has id NewMessageId(t).
NewMessageId(t) == <<"uuid", t>>

\* ---------------------------------------------------------------- values
\* Option<T>: None, Some(x)
None == {}
Some(x) == {x}
IsSome(o) == o # {}
Unwrap(o) == CHOOSE x \in o : TRUE

\* Result<T>: Ok(v), Err(NetworkError::kind(detail))
Ok(v) == [ok |-> TRUE, val |-> v]
Err(kind, detail) == [ok |-> FALSE, kind |-> kind, detail |-> detail]
config_error(msg) == Err("ConfigError", msg)
connection_error(msg) == Err("ConnectionError", msg)
send_error(msg) == Err("SendError", msg)
node_not_found(node_id) == Err("NodeNotFound", node_id)
Unit == "unit"
NoRet == [ok |-> FALSE, kind |-> "pending", detail |-> "pending"]

\* The configuration each service is started with: its own listening address,
\* display name and identity key.
BindAddr(s) == <<"127.0.0.1", s>>
ExtAddr == <<"remote", NumSvc + 1>>
ServerName(s) == s
PrivateKey(s) == s
Config(s) == [bind_address |-> BindAddr(s), server_name |-> ServerName(s),
              private_key |-> PrivateKey(s)]
\* The transport derives a peer identity from the key.
PeerIdOfKey(k) == <<"peer", k>>
ExtPeer == <<"peer", NumSvc + 1>>
PeerId == {PeerIdOfKey(PrivateKey(s)) : s \in Svc} \cup {ExtPeer}
\* start: local_id = format!("{}:{}", config.server_name, network.local_addr())
LocalId(name, addr) == <<name, addr>>
NodeIdOf(s) == LocalId(ServerName(s), BindAddr(s))
\* A NodeId of a node of another process: never a key of this registry.
RemoteNode == LocalId(NumSvc + 1, ExtAddr)
NodeId == {NodeIdOf(s) : s \in Svc} \cup {RemoteNode}
\* Addresses a caller may hand to add_known_server, and the services that are
\* given one (the clients of main.rs; the others run as servers).
ServerAddrs == {ExtAddr}
Clients == {1}
\* The services whose messaging operations are called; the rest are peers that
\* are only started and stopped.
Senders == {2}

VARIABLES
  GLOBAL_NODES,     \* the process-wide registry: a function NodeId -> PeerId
  is_running,       \* [Svc -> BOOLEAN]
  local_node_id,    \* [Svc -> Option<NodeId>]
  network,          \* [Svc -> Option<Network>], Network = [peer_id, local_addr]
  known_servers,    \* [Svc -> Seq(address)]
  locks,            \* the RwLocks guarding the fields above
  pc,               \* [Task -> position in the operation it runs]
  call,             \* [Task -> the operation and its arguments]
  loc,              \* [Task -> the operation's local variables]
  sent,             \* [Task -> the transport calls the operation issued]
  ret,              \* [Task -> the operation's result]
  message_handlers, \* AnemoNetworkService.message_handlers: MessageType -> handler
  delivered,        \* the requests that reached the service's network
  service_handlers, \* NetworkService.message_handlers: MessageType -> handler
  incoming,         \* the calls of NetworkService::handle_incoming_message
  dispatch,         \* the handler tasks handle_incoming_message spawned
  channel,          \* EventBus.sender: the values the broadcast channel accepted
  receivers,        \* the broadcast::Receivers that subscribe() returned
  handlers,         \* EventBus.handlers: name -> EventHandler
  event_tasks,      \* the tasks publish spawned, one per handler and event
  capacity,         \* the capacity the bus was built with
  published,        \* the events publish was called with, in call order
  pubs,             \* the calls of EventBus::publish made by clients of the bus
  last_op           \* per table and key, the last registration call made

\* TimeSyncService (crates/timesync-module) and the clock it reads.
VARIABLES
  clock,              \* the system clock, in ms since the epoch
  pending_requests,   \* TimeSyncService.pending_requests: request_id -> TimeRequest
  sync_sessions,      \* TimeSyncService.sync_sessions: NodeId -> SyncSession
  stats,              \* TimeSyncService.stats
  ts_calls,           \* the calls of handle_time_request / handle_sync_request
  wire,               \* the responses unicast handed to the transport, in order
  heartbeat_handle,   \* TimeSyncService.heartbeat_handle: Option<JoinHandle>
  heartbeat_sequence, \* TimeSyncService.heartbeat_sequence
  hb_tasks,           \* the heartbeat tasks start_heartbeat spawned
  hb_broadcasts,      \* the heartbeat broadcasts started, in order
  hb_calls            \* the start_heartbeat / stop_heartbeat calls made, in order

\* ChatService (src/chat_service.rs), the standalone chat service.
VARIABLES
  users,              \* ChatService.users: PeerId -> ChatUser
  username_to_peer,   \* ChatService.username_to_peer: username -> PeerId
  chat_calls          \* the calls of user_join / user_leave, in call order

shared == <<GLOBAL_NODES, is_running, local_node_id, network, known_servers>>
transport_vars == <<GLOBAL_NODES, is_running, local_node_id, network, known_servers,
                    locks, pc, call, loc, sent, ret>>
table_vars == <<message_handlers, service_handlers, handlers, last_op>>
inbound_vars == <<delivered, incoming, dispatch>>
bus_vars == <<capacity, channel, receivers, event_tasks, published, pubs>>
dispatch_vars == <<table_vars, inbound_vars, bus_vars>>
request_vars == <<pending_requests, sync_sessions, stats, ts_calls, wire>>
heartbeat_vars == <<heartbeat_handle, heartbeat_sequence, hb_tasks, hb_broadcasts, hb_calls>>
timesync_vars == <<clock, request_vars, heartbeat_vars>>
chat_vars == <<users, username_to_peer, chat_calls>>
vars == <<transport_vars, dispatch_vars, timesync_vars, chat_vars>>

\* ---------------------------------------------------------------- locks
\* tokio::sync::RwLock: readers share, a writer excludes, waiters are served
\* in arrival order (a reader arriving behind a waiting writer waits too).
GLock == <<"GLOBAL_NODES", 0>>
RLock(s) == <<"is_running", s>>
LLock(s) == <<"local_node_id", s>>
NLock(s) == <<"network", s>>
LockId == {GLock} \cup {RLock(s) : s \in Svc} \cup {LLock(s) : s \in Svc}
            \cup {NLock(s) : s \in Svc}
FreeLock == [w |-> {}, r |-> {}, q |-> <<>>]

Holds(lks, l, t) == t \in lks[l].w \cup lks[l].r
Queued(lks, l, t) == \E i \in 1..Len(lks[l].q) : lks[l].q[i][1] = t
Grantable(lk, mode) == lk.w = {} /\ (mode = "w" => lk.r = {})
CanTake(lks, l, mode) == lks[l].q = <<>> /\ Grantable(lks[l], mode)
Grant(lk, t, mode) ==
  IF mode = "w" THEN [lk EXCEPT !.w = {t}] ELSE [lk EXCEPT !.r = @ \cup {t}]
Take(lks, l, t, mode) == [lks EXCEPT ![l] = Grant(@, t, mode)]
Enqueue(lks, l, t, mode) == [lks EXCEPT ![l].q = Append(@, <<t, mode>>)]
\* On release the freed permits go to the waiters at the head of the queue.
RECURSIVE Promote(_)
Promote(lk) ==
  IF lk.q # <<>> /\ Grantable(lk, lk.q[1][2])
  THEN Promote([Grant(lk, lk.q[1][1], lk.q[1][2]) EXCEPT !.q = Tail(lk.q)])
  ELSE lk
Release(lks, l, t) ==
  [lks EXCEPT ![l] = Promote([@ EXCEPT !.w = @ \ {t}, !.r = @ \ {t}])]
\* try_read: succeeds iff a permit is available, i.e. no writer holds the lock
\* and none waits (a waiting writer has drained the permits).
TryReadOk(lks, l) == lks[l].w = {} /\ lks[l].q = <<>>

\* A task at an acquire point goes on when it was granted the lock while
\* queued, or when the lock can be taken at once; Got is the lock state then.
Ready(t, l, mode) ==
  \/ Holds(locks, l, t)
  \/ ~Queued(locks, l, t) /\ CanTake(locks, l, mode)
Got(t, l, mode) == IF Holds(locks, l, t) THEN locks ELSE Take(locks, l, t, mode)

\* ---------------------------------------------------------------- tasks
NoCall == [op |-> "none", svc |-> 0, message |-> <<>>, target |-> None, exclude_nodes |-> {}]
NoLoc == [network |-> None, local_id |-> None, peer_id |-> None, todo |-> {},
          nodes |-> {}, servers |-> <<>>]

\* ---------------------------------------------------------------- inbound values
\* MessageType::chat(), MessageType::timesync(); the MessageHandler objects a
\* business module registers; the EventHandler objects, each reporting a name.
MessageType == {"chat", "timesync"}
MessageHandler == {"chat_handler", "timesync_handler"}
EventHandlerName == {"log_handler", "metrics_handler"}
EventHandler == [name : EventHandlerName, obj : {"a", "b"}]
\* The inbound message of the i-th call, of type T, and the node it came from.
InMessage(i, T) == [id |-> <<"uuid", i>>, message_type |-> T]
Peer == RemoteNode

\* NetworkEvent
MessageReceived(from, message) == [kind |-> "MessageReceived", from |-> from, message |-> message]
ErrorEvent(error) == [kind |-> "Error", error |-> error]
MessageSentEvent(to, message_id) == [kind |-> "MessageSent", to |-> to, message_id |-> message_id]

\* The registration calls last_op records.
NoOp == [op |-> "none"]
\* replaced / removed: whether the call found an entry under the key.
Registered(h, replaced) == [op |-> "register", handler |-> h, replaced |-> replaced]
Unregistered(removed) == [op |-> "unregister", removed |-> removed]
TableKey == ({"AnemoNetworkService", "NetworkService"} \X MessageType)
              \cup ({"EventBus"} \X EventHandlerName)

NoIncoming == [pc |-> "none", message |-> <<>>, ret |-> NoRet]
NoDispatch == [st |-> "none", handler |-> None]
NoPublish == [pc |-> "none", event |-> <<>>]

DispatchInit ==
  /\ message_handlers = <<>>
  /\ delivered = {}
  /\ service_handlers = <<>>
  /\ incoming = [i \in 1..MaxInbound |-> NoIncoming]
  /\ dispatch = [i \in 1..MaxInbound |-> NoDispatch]
  /\ channel = <<>>
  /\ receivers = <<>>
  /\ handlers = <<>>
  /\ event_tasks = {}
  /\ published = <<>>
  /\ pubs = [k \in 1..MaxPublish |-> NoPublish]
  /\ last_op = [k \in TableKey |-> NoOp]

\* ---------------------------------------------------------------- timesync values
\* i64 in two's complement, TimestampBits wide.
RECURSIVE Pow2(_)
Pow2(n) == IF n = 0 THEN 1 ELSE 2 * Pow2(n - 1)
MinInt == 0 - Pow2(TimestampBits - 1)
MaxInt == Pow2(TimestampBits - 1) - 1
Timestamp == MinInt..MaxInt
Overflows(x) == x < MinInt \/ x > MaxInt
Wrap(x) == ((x - MinInt) % Pow2(TimestampBits)) + MinInt

\* The peers that send requests, the request ids and the intervals they choose.
SyncPeer == {NodeIdOf(1), NodeIdOf(2)}
RequestId == {<<"uuid", n>> : n \in 1..NumRequestId}
NewRequestId(c) == <<"uuid", c>>
SyncInterval == (MinSyncInterval - 1)..(MaxSyncInterval + 1)
\* let round_trip_time_ms = 10
RoundTripTimeMs == 10

\* TimeSyncError
InvalidTimestamp(ts) == Err("InvalidTimestamp", ts)
InvalidSyncInterval(ms) == Err("InvalidSyncInterval", ms)
HeartbeatAlreadyStarted == Err("HeartbeatAlreadyStarted", Unit)
HeartbeatNotStarted == Err("HeartbeatNotStarted", Unit)
NetworkError(e) == Err("NetworkError", e)
\* An arithmetic overflow in a build with overflow checks: the task panics.
Panic == Err("panic", "attempt to subtract with overflow")

\* f64: a finite value num/den, or one of the values a division by 0.0 gives.
Finite(num, den) == [kind |-> "finite", num |-> num, den |-> den]
Infinity == [kind |-> "inf", num |-> 1, den |-> 0]
NegInfinity == [kind |-> "-inf", num |-> 0 - 1, den |-> 0]
NaN == [kind |-> "nan", num |-> 0, den |-> 0]

NoTsCall == [op |-> "none", pc |-> "none", from |-> None, request_id |-> None,
             client_time |-> 0, sync_interval_ms |-> 0, received_at |-> 0,
             server_time |-> 0, time_offset_ms |-> 0, sent_at |-> 0, ret |-> NoRet]
NoHbTask == [st |-> "none", pc |-> "none", interval_ms |-> 0, sequence |-> 0,
             abort |-> FALSE]

\* TimeSyncService::new
TimeSyncNew ==
  /\ clock = 1
  /\ pending_requests = <<>>
  /\ sync_sessions = <<>>
  /\ stats = [total_requests |-> 0, total_responses |-> 0,
              avg_response_time_ms |-> Finite(0, 1), last_sync_time |-> None,
              active_sessions |-> 0, heartbeat_count |-> 0]
  /\ ts_calls = [c \in 1..MaxTsCalls |-> NoTsCall]
  /\ wire = <<>>
  /\ heartbeat_handle = None
  /\ heartbeat_sequence = 0
  /\ hb_tasks = [h \in 1..MaxHbTasks |-> NoHbTask]
  /\ hb_broadcasts = <<>>
  /\ hb_calls = <<>>

\* ChatService::new
ChatPeer == {<<"peer", 10 + n>> : n \in 1..NumChatPeer}
Username == {<<"name", n>> : n \in 1..NumUsername}
NoChatCall == [op |-> "none", pc |-> "none", peer_id |-> None, username |-> None,
               ret |-> NoRet]
ChatNew ==
  /\ users = <<>>
  /\ username_to_peer = <<>>
  /\ chat_calls = [c \in 1..MaxChatCalls |-> NoChatCall]

Constructed ==
  /\ GLOBAL_NODES = <<>>
  /\ is_running = [s \in Svc |-> FALSE]
  /\ local_node_id = [s \in Svc |-> None]
  /\ network = [s \in Svc |-> None]
  /\ known_servers = [s \in Svc |-> <<>>]
  /\ locks = [l \in LockId |-> FreeLock]
  /\ pc = [t \in Task |-> "idle"]
  /\ call = [t \in Task |-> NoCall]
  /\ loc = [t \in Task |-> NoLoc]
  /\ sent = [t \in Task |-> <<>>]
  /\ ret = [t \in Task |-> NoRet]
  /\ DispatchInit
  /\ TimeSyncNew
  /\ ChatNew

\* Both services build their bus with EventBus::new(1000).
Init == Constructed /\ capacity = Capacity

\* The registry as a map: insert, remove, keys.
Keys(m) == DOMAIN m
InsertKeepingFirst(m, k, v) ==
  [x \in DOMAIN m \cup {k} |-> IF x \in DOMAIN m THEN m[x] ELSE v]
Insert(m, k, v) == [x \in DOMAIN m \cup {k} |-> IF x = k THEN v ELSE m[x]]
RemoveIgnored(m, k) == m
Remove(m, k) == [x \in DOMAIN m \ {k} |-> m[x]]

\* A caller hands a new call to the lowest free task.
CanInvoke(t) == pc[t] = "idle" /\ \A u \in Task : u < t => pc[u] # "idle"
Invoke(t, first, c) ==
  /\ CanInvoke(t)
  /\ pc' = [pc EXCEPT ![t] = first]
  /\ call' = [call EXCEPT ![t] = c]
  /\ UNCHANGED <<dispatch_vars, timesync_vars, chat_vars, shared, locks, loc, sent, ret>>
\* The operation returns r, leaving the lock state lks and its locals l.
Return(t, lks, r, l) ==
  /\ pc' = [pc EXCEPT ![t] = "done"]
  /\ ret' = [ret EXCEPT ![t] = r]
  /\ loc' = [loc EXCEPT ![t] = l]
  /\ locks' = lks
\* The operation goes on to its next suspension point.
Goto(t, lks, next, l) ==
  /\ pc' = [pc EXCEPT ![t] = next]
  /\ loc' = [loc EXCEPT ![t] = l]
  /\ locks' = lks
  /\ UNCHANGED ret

\* The lock a task at an acquire point awaits, and how.
Want(t) ==
  LET s == call[t].svc IN
  CASE pc[t] \in {"start_R", "stop_R"} -> <<RLock(s), "w">>
    [] pc[t] \in {"start_G", "stop_G", "conn_G"} -> <<GLock, "w">>
    [] pc[t] \in {"start_L", "stop_Lw"} -> <<LLock(s), "w">>
    [] pc[t] \in {"start_N", "stop_N"} -> <<NLock(s), "w">>
    [] pc[t] \in {"bc_R", "uc_R", "gcn_R"} -> <<RLock(s), "r">>
    [] pc[t] \in {"bc_N", "uc_N", "conn_N"} -> <<NLock(s), "r">>
    [] pc[t] \in {"bc_G", "gcn_G"} -> <<GLock, "r">>
    [] pc[t] \in {"stop_Lr", "bc_L", "gcn_L", "glid_L", "conn_L"} -> <<LLock(s), "r">>
    [] OTHER -> <<GLock, "none">>

\* The lock is not free: the task joins the lock's queue and is suspended.
Park(t) ==
  /\ Want(t)[2] # "none"
  /\ ~Holds(locks, Want(t)[1], t)
  /\ ~Queued(locks, Want(t)[1], t)
  /\ ~CanTake(locks, Want(t)[1], Want(t)[2])
  /\ locks' = Enqueue(locks, Want(t)[1], t, Want(t)[2])
  /\ UNCHANGED <<dispatch_vars, timesync_vars, chat_vars, shared, pc, call, loc, sent, ret>>

\* ---------------------------------------------------------------- start
CallStart(t) ==
  \E s \in Svc : Invoke(t, "start_R", [NoCall EXCEPT !.op = "start", !.svc = s])

\* if *is_running { return Err(config_error(..)) }
AlreadyRunningIgnored(s) == FALSE
AlreadyRunning(s) == is_running[s]

\* Network::bind(..).start(router): the bound network, when the bind succeeds.
Bind(config) == [peer_id |-> PeerIdOfKey(config.private_key),
                 local_addr |-> config.bind_address]

\* is_running.write(); the already-started check; the bind.
StartCheck(t) ==
  /\ pc[t] = "start_R"
  /\ LET s == call[t].svc
         l == RLock(s)
     IN
     /\ Ready(t, l, "w")
     /\ IF AlreadyRunning(s)
        THEN Return(t, Release(Got(t, l, "w"), l, t),
                    config_error("service already started"), loc[t])
        ELSE \/ Return(t, Release(Got(t, l, "w"), l, t),
                       connection_error("bind failed"), loc[t])
             \/ Goto(t, Got(t, l, "w"), "start_G",
                     [loc[t] EXCEPT !.network = Some(Bind(Config(s))),
                                    !.local_id = Some(LocalId(Config(s).server_name,
                                                              Bind(Config(s)).local_addr))])
  /\ UNCHANGED <<dispatch_vars, timesync_vars, chat_vars, shared, call, sent>>

\* GLOBAL_NODES.write(): insert(local_id, network.peer_id()).
StartRegister(t) ==
  /\ pc[t] = "start_G"
  /\ Ready(t, GLock, "w")
  /\ GLOBAL_NODES' = Insert(GLOBAL_NODES, Unwrap(loc[t].local_id), Unwrap(loc[t].network).peer_id)
  /\ Goto(t, Release(Got(t, GLock, "w"), GLock, t), "start_L", loc[t])
  /\ UNCHANGED <<dispatch_vars, timesync_vars, chat_vars, is_running, local_node_id, network, known_servers, call, sent>>

\* *self.local_node_id.write().await = Some(local_id)
StartStoreId(t) ==
  /\ pc[t] = "start_L"
  /\ LET l == LLock(call[t].svc) IN
     /\ Ready(t, l, "w")
     /\ local_node_id' = [local_node_id EXCEPT ![call[t].svc] = loc[t].local_id]
     /\ Goto(t, Release(Got(t, l, "w"), l, t), "start_N", loc[t])
  /\ UNCHANGED <<dispatch_vars, timesync_vars, chat_vars, GLOBAL_NODES, is_running, network, known_servers, call, sent>>

\* *self.network.write().await = Some(network); *is_running = true; Ok(())
StartStoreNet(t) ==
  /\ pc[t] = "start_N"
  /\ LET s == call[t].svc
         l == NLock(s)
     IN
     /\ Ready(t, l, "w")
     /\ network' = [network EXCEPT ![s] = loc[t].network]
     /\ is_running' = [is_running EXCEPT ![s] = TRUE]
     /\ Return(t, Release(Release(Got(t, l, "w"), l, t), RLock(s), t), Ok(Unit), loc[t])
  /\ UNCHANGED <<dispatch_vars, timesync_vars, chat_vars, GLOBAL_NODES, local_node_id, known_servers, call, sent>>

\* ---------------------------------------------------------------- stop
CallStop(t) ==
  \E s \in Svc : Invoke(t, "stop_R", [NoCall EXCEPT !.op = "stop", !.svc = s])

\* if !*is_running { return Ok(()) }
AlreadyStoppedIgnored(s) == FALSE
AlreadyStopped(s) == ~is_running[s]

\* is_running.write(); a stopped service returns Ok at once.
StopCheck(t) ==
  /\ pc[t] = "stop_R"
  /\ LET s == call[t].svc
         l == RLock(s)
     IN
     /\ Ready(t, l, "w")
     /\ IF AlreadyStopped(s)
        THEN Return(t, Release(Got(t, l, "w"), l, t), Ok(Unit), loc[t])
        ELSE Goto(t, Got(t, l, "w"), "stop_Lr", loc[t])
  /\ UNCHANGED <<dispatch_vars, timesync_vars, chat_vars, shared, call, sent>>

\* if let Some(local_id) = self.local_node_id.read().await.as_ref()
StopReadId(t) ==
  /\ pc[t] = "stop_Lr"
  /\ LET s == call[t].svc
         l == LLock(s)
     IN
     /\ Ready(t, l, "r")
     /\ IF IsSome(local_node_id[s])
        THEN Goto(t, Got(t, l, "r"), "stop_G", [loc[t] EXCEPT !.local_id = local_node_id[s]])
        ELSE Goto(t, Release(Got(t, l, "r"), l, t), "stop_Lw", loc[t])
  /\ UNCHANGED <<dispatch_vars, timesync_vars, chat_vars, shared, call, sent>>

\* GLOBAL_NODES.write(): remove(local_id); both guards are dropped.
StopUnregister(t) ==
  /\ pc[t] = "stop_G"
  /\ Ready(t, GLock, "w")
  /\ GLOBAL_NODES' = Remove(GLOBAL_NODES, Unwrap(loc[t].local_id))
  /\ Goto(t, Release(Release(Got(t, GLock, "w"), GLock, t), LLock(call[t].svc), t),
          "stop_Lw", loc[t])
  /\ UNCHANGED <<dispatch_vars, timesync_vars, chat_vars, is_running, local_node_id, network, known_servers, call, sent>>

StopClearIdSkipped(t) ==
  /\ pc[t] = "stop_Lw"
  /\ LET l == LLock(call[t].svc) IN
     /\ Ready(t, l, "w")
     /\ Goto(t, Release(Got(t, l, "w"), l, t), "stop_N", loc[t])
  /\ UNCHANGED <<dispatch_vars, timesync_vars, chat_vars, shared, call, sent>>
\* *self.local_node_id.write().await = None
StopClearId(t) ==
  /\ pc[t] = "stop_Lw"
  /\ LET l == LLock(call[t].svc) IN
     /\ Ready(t, l, "w")
     /\ local_node_id' = [local_node_id EXCEPT ![call[t].svc] = None]
     /\ Goto(t, Release(Got(t, l, "w"), l, t), "stop_N", loc[t])
  /\ UNCHANGED <<dispatch_vars, timesync_vars, chat_vars, GLOBAL_NODES, is_running, network, known_servers, call, sent>>

\* *self.network.write().await = None; *is_running = false; Ok(())
StopClearNet(t) ==
  /\ pc[t] = "stop_N"
  /\ LET s == call[t].svc
         l == NLock(s)
     IN
     /\ Ready(t, l, "w")
     /\ network' = [network EXCEPT ![s] = None]
     /\ is_running' = [is_running EXCEPT ![s] = FALSE]
     /\ Return(t, Release(Release(Got(t, l, "w"), l, t), RLock(s), t), Ok(Unit), loc[t])
  /\ UNCHANGED <<dispatch_vars, timesync_vars, chat_vars, GLOBAL_NODES, local_node_id, known_servers, call, sent>>

\* ---------------------------------------------------------------- broadcast
ExcludeSets == {E \in SUBSET NodeId : Cardinality(E) <= MaxExclude}

CallBroadcast(t) ==
  \E s \in Senders, E \in ExcludeSets :
    Invoke(t, "bc_R", [NoCall EXCEPT !.op = "broadcast", !.svc = s,
                                     !.message = NewMessageId(t),
                                     !.exclude_nodes = E])

\* A transport call handed to the network: the registry key it was made for, the
\* peer handle it went to, the id of the message it carried and how it ended.
Rpc(node, peer, m) == [node |-> node, peer |-> peer, message |-> m, result |-> "pending"]
Issue(snt, node, peer, m) == Append(snt, Rpc(node, peer, m))
Complete(snt, ok) == [snt EXCEPT ![Len(snt)].result = IF ok THEN "ok" ELSE "failed"]

\* let is_running = *self.is_running.read().await; the guard is dropped at once.
ReadRunningFlag(t) ==
  IF Holds(locks, RLock(call[t].svc), t)
  THEN Release(locks, RLock(call[t].svc), t)
  ELSE locks

BroadcastCheckNoGuard(t) ==
  /\ pc[t] = "bc_R"
  /\ Ready(t, RLock(call[t].svc), "r")
  /\ Goto(t, ReadRunningFlag(t), "bc_N", loc[t])
  /\ UNCHANGED <<dispatch_vars, timesync_vars, chat_vars, shared, call, sent>>
BroadcastCheck(t) ==
  /\ pc[t] = "bc_R"
  /\ Ready(t, RLock(call[t].svc), "r")
  /\ IF ~is_running[call[t].svc]
     THEN Return(t, ReadRunningFlag(t), config_error("service not started"), loc[t])
     ELSE Goto(t, ReadRunningFlag(t), "bc_N", loc[t])
  /\ UNCHANGED <<dispatch_vars, timesync_vars, chat_vars, shared, call, sent>>

\* let network = self.network.read().await; if let Some(network) = ...
BroadcastNet(t) ==
  /\ pc[t] = "bc_N"
  /\ LET s == call[t].svc
         l == NLock(s)
     IN
     /\ Ready(t, l, "r")
     /\ IF IsSome(network[s])
        THEN Goto(t, Got(t, l, "r"), "bc_G", [loc[t] EXCEPT !.network = network[s]])
        ELSE Return(t, Release(Got(t, l, "r"), l, t), Ok(call[t].message), loc[t])
  /\ UNCHANGED <<dispatch_vars, timesync_vars, chat_vars, shared, call, sent>>

\* let global_nodes = GLOBAL_NODES.read().await
BroadcastNodes(t) ==
  /\ pc[t] = "bc_G"
  /\ Ready(t, GLock, "r")
  /\ Goto(t, Got(t, GLock, "r"), "bc_L", loc[t])
  /\ UNCHANGED <<dispatch_vars, timesync_vars, chat_vars, shared, call, sent>>

\* The entries of the registry the loop calls: not excluded, not the local node.
BroadcastTargetsWithSelf(nodes, local, exclude) == {n \in nodes : n \notin exclude}
BroadcastTargets(nodes, local, exclude) ==
  {n \in nodes : n \notin exclude /\ (IsSome(local) => n # Unwrap(local))}

\* The loop goes to its next entry (in the map's own order) and calls it, or
\* ends: the three read guards are dropped and the message's id is returned.
BroadcastLoop(t, lks, todo, snt) ==
  LET s == call[t].svc IN
  IF todo = {}
  THEN /\ Return(t, Release(Release(Release(lks, LLock(s), t), GLock, t), NLock(s), t),
                 Ok(call[t].message), [loc[t] EXCEPT !.todo = {}])
       /\ sent' = [sent EXCEPT ![t] = snt]
  ELSE \E n \in todo :
         /\ Goto(t, lks, "bc_rpc", [loc[t] EXCEPT !.todo = todo \ {n}])
         /\ sent' = [sent EXCEPT ![t] = Issue(snt, n, GLOBAL_NODES[n], call[t].message)]

\* let local_id = self.local_node_id.read().await; the loop starts.
BroadcastLocal(t) ==
  /\ pc[t] = "bc_L"
  /\ LET s == call[t].svc IN
     /\ Ready(t, LLock(s), "r")
     /\ BroadcastLoop(t, Got(t, LLock(s), "r"),
                      BroadcastTargets(Keys(GLOBAL_NODES), local_node_id[s],
                                       call[t].exclude_nodes),
                      sent[t])
  /\ UNCHANGED <<dispatch_vars, timesync_vars, chat_vars, shared, call>>

\* network.rpc(*peer_id, request).await returns; after Ok and after Err alike the
\* loop goes on.
BroadcastRpcReturnAbort(t) ==
  /\ pc[t] = "bc_rpc"
  /\ \/ BroadcastLoop(t, locks, loc[t].todo, Complete(sent[t], TRUE))
     \/ /\ Return(t, Release(Release(Release(locks, LLock(call[t].svc), t), GLock, t),
                             NLock(call[t].svc), t),
                  send_error("rpc failed"), loc[t])
        /\ sent' = [sent EXCEPT ![t] = Complete(sent[t], FALSE)]
  /\ UNCHANGED <<dispatch_vars, timesync_vars, chat_vars, shared, call>>
BroadcastRpcReturn(t) ==
  /\ pc[t] = "bc_rpc"
  /\ \E ok \in BOOLEAN : BroadcastLoop(t, locks, loc[t].todo, Complete(sent[t], ok))
  /\ UNCHANGED <<dispatch_vars, timesync_vars, chat_vars, shared, call>>

\* ---------------------------------------------------------------- unicast
CallUnicast(t) ==
  \E s \in Senders, n \in NodeId :
    Invoke(t, "uc_R", [NoCall EXCEPT !.op = "unicast", !.svc = s,
                                     !.message = NewMessageId(t),
                                     !.target = Some(n)])

UnicastCheck(t) ==
  /\ pc[t] = "uc_R"
  /\ Ready(t, RLock(call[t].svc), "r")
  /\ IF ~is_running[call[t].svc]
     THEN Return(t, ReadRunningFlag(t), config_error("service not started"), loc[t])
     ELSE Goto(t, ReadRunningFlag(t), "uc_try", loc[t])
  /\ UNCHANGED <<dispatch_vars, timesync_vars, chat_vars, shared, call, sent>>

\* GLOBAL_NODES.try_read() (no waiting), then the lookup.
node_id_to_peer_id(node_id) ==
  IF ~TryReadOk(locks, GLock) THEN config_error("cannot get the node table")
  ELSE IF node_id \in Keys(GLOBAL_NODES) THEN Ok(GLOBAL_NODES[node_id])
  ELSE node_not_found(node_id)

\* let peer_id = Self::node_id_to_peer_id(&target)?;
UnicastResolve(t) ==
  /\ pc[t] = "uc_try"
  /\ LET r == node_id_to_peer_id(Unwrap(call[t].target)) IN
     IF r.ok
     THEN Goto(t, locks, "uc_N", [loc[t] EXCEPT !.peer_id = Some(r.val)])
     ELSE Return(t, locks, r, loc[t])
  /\ UNCHANGED <<dispatch_vars, timesync_vars, chat_vars, shared, call, sent>>

\* let network = self.network.read().await; the one rpc is issued.
UnicastNet(t) ==
  /\ pc[t] = "uc_N"
  /\ LET s == call[t].svc
         l == NLock(s)
     IN
     /\ Ready(t, l, "r")
     /\ IF IsSome(network[s])
        THEN /\ Goto(t, Got(t, l, "r"), "uc_rpc", [loc[t] EXCEPT !.network = network[s]])
             /\ sent' = [sent EXCEPT ![t] = Issue(sent[t], Unwrap(call[t].target),
                                                  Unwrap(loc[t].peer_id), call[t].message)]
        ELSE /\ Return(t, Release(Got(t, l, "r"), l, t),
                       config_error("network not started"), loc[t])
             /\ UNCHANGED sent
  /\ UNCHANGED <<dispatch_vars, timesync_vars, chat_vars, shared, call>>

\* network.rpc(peer_id, request).await returns: Ok(message.id) or a send error.
UnicastRpcReturn(t) ==
  /\ pc[t] = "uc_rpc"
  /\ \E ok \in BOOLEAN :
       /\ sent' = [sent EXCEPT ![t] = Complete(sent[t], ok)]
       /\ Return(t, Release(locks, NLock(call[t].svc), t),
                 IF ok THEN Ok(call[t].message) ELSE send_error("rpc failed"), loc[t])
  /\ UNCHANGED <<dispatch_vars, timesync_vars, chat_vars, shared, call>>

\* ---------------------------------------------------------------- node queries
CallGetConnectedNodes(t) ==
  \E s \in Senders : Invoke(t, "gcn_R", [NoCall EXCEPT !.op = "get_connected_nodes", !.svc = s])

GetConnectedCheck(t) ==
  /\ pc[t] = "gcn_R"
  /\ Ready(t, RLock(call[t].svc), "r")
  /\ IF ~is_running[call[t].svc]
     THEN Return(t, ReadRunningFlag(t), config_error("service not started"), loc[t])
     ELSE Goto(t, ReadRunningFlag(t), "gcn_G", loc[t])
  /\ UNCHANGED <<dispatch_vars, timesync_vars, chat_vars, shared, call, sent>>

GetConnectedNodes(t) ==
  /\ pc[t] = "gcn_G"
  /\ Ready(t, GLock, "r")
  /\ Goto(t, Got(t, GLock, "r"), "gcn_L", loc[t])
  /\ UNCHANGED <<dispatch_vars, timesync_vars, chat_vars, shared, call, sent>>

\* global_nodes.keys().filter(|id| id != local).cloned().collect()
ConnectedNodesUnfiltered(nodes, local) == nodes
ConnectedNodes(nodes, local) == {n \in nodes : IsSome(local) => n # Unwrap(local)}

GetConnectedCollect(t) ==
  /\ pc[t] = "gcn_L"
  /\ LET s == call[t].svc IN
     /\ Ready(t, LLock(s), "r")
     /\ Return(t, Release(Release(Got(t, LLock(s), "r"), LLock(s), t), GLock, t),
               Ok(ConnectedNodes(Keys(GLOBAL_NODES), local_node_id[s])), loc[t])
  /\ UNCHANGED <<dispatch_vars, timesync_vars, chat_vars, shared, call, sent>>

CallGetLocalNodeId(t) ==
  \E s \in Senders : Invoke(t, "glid_L", [NoCall EXCEPT !.op = "get_local_node_id", !.svc = s])

GetLocalNodeId(t) ==
  /\ pc[t] = "glid_L"
  /\ LET s == call[t].svc IN
     /\ Ready(t, LLock(s), "r")
     /\ Return(t, Release(Got(t, LLock(s), "r"), LLock(s), t),
               IF IsSome(local_node_id[s]) THEN Ok(Unwrap(local_node_id[s]))
               ELSE config_error("service not started"), loc[t])
  /\ UNCHANGED <<dispatch_vars, timesync_vars, chat_vars, shared, call, sent>>

\* ---------------------------------------------------------------- connect
\* add_known_server: push the address unless the list holds it.
AddKnownServer ==
  \E s \in Clients, a \in ServerAddrs :
    /\ Len(known_servers[s]) < MaxKnown
    /\ \A i \in 1..Len(known_servers[s]) : known_servers[s][i] # a
    /\ known_servers' = [known_servers EXCEPT ![s] = Append(@, a)]
    /\ UNCHANGED <<dispatch_vars, timesync_vars, chat_vars, GLOBAL_NODES, is_running, local_node_id, network, locks, pc, call,
                   loc, sent, ret>>

CallConnect(t) ==
  \E s \in Clients :
    Invoke(t, "conn_N", [NoCall EXCEPT !.op = "connect_to_known_servers_delayed", !.svc = s])

\* The loop goes to the next server address and connects, or the function ends
\* and the network read guard is dropped.
ConnectLoop(t, lks, servers) ==
  IF servers = <<>>
  THEN Return(t, Release(lks, NLock(call[t].svc), t), Ok(Unit),
              [loc[t] EXCEPT !.servers = <<>>, !.peer_id = None, !.local_id = None])
  ELSE Goto(t, lks, "conn_call",
            [loc[t] EXCEPT !.servers = servers, !.peer_id = None, !.local_id = None])

\* let network = self.network.read().await; the list of servers is cloned.
ConnectNet(t) ==
  /\ pc[t] = "conn_N"
  /\ LET s == call[t].svc
         l == NLock(s)
     IN
     /\ Ready(t, l, "r")
     /\ IF IsSome(network[s])
        THEN ConnectLoop(t, Got(t, l, "r"), known_servers[s])
        ELSE Return(t, Release(Got(t, l, "r"), l, t), Ok(Unit), loc[t])
  /\ UNCHANGED <<dispatch_vars, timesync_vars, chat_vars, shared, call, sent>>

\* The peers a connect to the address can reach: a live network of this process
\* bound to it, or the server of another process.
Listening(addr) ==
  {Unwrap(network[s]).peer_id :
     s \in {x \in Svc : IsSome(network[x]) /\ Unwrap(network[x]).local_addr = addr}}
  \cup (IF addr = ExtAddr THEN {ExtPeer} ELSE {})

\* network.connect(addr).await returns Ok(peer_id) or Err.
ConnectReturn(t) ==
  /\ pc[t] = "conn_call"
  /\ \/ ConnectLoop(t, locks, Tail(loc[t].servers))
     \/ \E p \in Listening(Head(loc[t].servers)) :
          Goto(t, locks, "conn_L", [loc[t] EXCEPT !.peer_id = Some(p)])
  /\ UNCHANGED <<dispatch_vars, timesync_vars, chat_vars, shared, call, sent>>

\* if let Some(local_id) = self.local_node_id.read().await.as_ref()
ConnectReadId(t) ==
  /\ pc[t] = "conn_L"
  /\ LET s == call[t].svc IN
     /\ Ready(t, LLock(s), "r")
     /\ IF IsSome(local_node_id[s])
        THEN Goto(t, Got(t, LLock(s), "r"), "conn_G",
                  [loc[t] EXCEPT !.local_id = local_node_id[s]])
        ELSE ConnectLoop(t, Release(Got(t, LLock(s), "r"), LLock(s), t), Tail(loc[t].servers))
  /\ UNCHANGED <<dispatch_vars, timesync_vars, chat_vars, shared, call, sent>>

\* GLOBAL_NODES.write(): insert(local_id, peer_id); both guards are dropped.
ConnectRegister(t) ==
  /\ pc[t] = "conn_G"
  /\ Ready(t, GLock, "w")
  /\ GLOBAL_NODES' = Insert(GLOBAL_NODES, Unwrap(loc[t].local_id), Unwrap(loc[t].peer_id))
  /\ ConnectLoop(t, Release(Release(Got(t, GLock, "w"), GLock, t), LLock(call[t].svc), t),
                 Tail(loc[t].servers))
  /\ UNCHANGED <<dispatch_vars, timesync_vars, chat_vars, is_running, local_node_id, network, known_servers, call, sent>>

\* ---------------------------------------------------------------- next
\* The caller takes the result; the task is free for the next call.
Reset(t) ==
  /\ pc[t] = "done"
  /\ pc' = [pc EXCEPT ![t] = "idle"]
  /\ call' = [call EXCEPT ![t] = NoCall]
  /\ loc' = [loc EXCEPT ![t] = NoLoc]
  /\ sent' = [sent EXCEPT ![t] = <<>>]
  /\ ret' = [ret EXCEPT ![t] = NoRet]
  /\ UNCHANGED <<dispatch_vars, timesync_vars, chat_vars, shared, locks>>

Next ==
  \/ \E t \in Task : CallStart(t)
  \/ \E t \in Task : StartCheck(t)
  \/ \E t \in Task : StartRegister(t)
  \/ \E t \in Task : StartStoreId(t)
  \/ \E t \in Task : StartStoreNet(t)
  \/ \E t \in Task : CallStop(t)
  \/ \E t \in Task : StopCheck(t)
  \/ \E t \in Task : StopReadId(t)
  \/ \E t \in Task : StopUnregister(t)
  \/ \E t \in Task : StopClearId(t)
  \/ \E t \in Task : StopClearNet(t)
  \/ \E t \in Task : CallBroadcast(t)
  \/ \E t \in Task : BroadcastCheck(t)
  \/ \E t \in Task : BroadcastNet(t)
  \/ \E t \in Task : BroadcastNodes(t)
  \/ \E t \in Task : BroadcastLocal(t)
  \/ \E t \in Task : BroadcastRpcReturn(t)
  \/ \E t \in Task : CallUnicast(t)
  \/ \E t \in Task : UnicastCheck(t)
  \/ \E t \in Task : UnicastResolve(t)
  \/ \E t \in Task : UnicastNet(t)
  \/ \E t \in Task : UnicastRpcReturn(t)
  \/ \E t \in Task : CallGetConnectedNodes(t)
  \/ \E t \in Task : GetConnectedCheck(t)
  \/ \E t \in Task : GetConnectedNodes(t)
  \/ \E t \in Task : GetConnectedCollect(t)
  \/ \E t \in Task : CallGetLocalNodeId(t)
  \/ \E t \in Task : GetLocalNodeId(t)
  \/ AddKnownServer
  \/ \E t \in Task : CallConnect(t)
  \/ \E t \in Task : ConnectNet(t)
  \/ \E t \in Task : ConnectReturn(t)
  \/ \E t \in Task : ConnectReadId(t)
  \/ \E t \in Task : ConnectRegister(t)
  \/ \E t \in Task : Park(t)
  \/ \E t \in Task : Reset(t)

Spec == Init /\ [][Next]_vars

\* ---------------------------------------------------------------- lock order
\* Three callers at once on the services 1..NumLockSvc: every operation of the
\* service, each on any of them.
LockTask == 1..NumLockTask
LockSvc == 1..NumLockSvc
LockInit ==
  /\ GLOBAL_NODES = <<>>
  /\ is_running = [s \in Svc |-> FALSE]
  /\ local_node_id = [s \in Svc |-> None]
  /\ network = [s \in Svc |-> None]
  /\ known_servers = [s \in Svc |-> <<>>]
  /\ locks = [l \in LockId |-> FreeLock]
  /\ pc = [t \in LockTask |-> "idle"]
  /\ call = [t \in LockTask |-> NoCall]
  /\ loc = [t \in LockTask |-> NoLoc]
  /\ sent = [t \in LockTask |-> <<>>]
  /\ ret = [t \in LockTask |-> NoRet]
  /\ DispatchInit
  /\ TimeSyncNew
  /\ ChatNew
  /\ capacity = Capacity
LockCall(t, op, first) ==
  \E s \in LockSvc :
    Invoke(t, first, [NoCall EXCEPT !.op = op, !.svc = s, !.message = NewMessageId(t),
                                    !.target = IF op = "unicast" THEN Some(NodeIdOf(s))
                                               ELSE None])
LockAddKnownServer ==
  \E s \in LockSvc, a \in ServerAddrs :
    /\ Len(known_servers[s]) < MaxKnown
    /\ known_servers' = [known_servers EXCEPT ![s] = Append(@, a)]
    /\ UNCHANGED <<dispatch_vars, timesync_vars, chat_vars, GLOBAL_NODES, is_running, local_node_id,
                   network, locks, pc, call, loc, sent, ret>>
LockNext ==
  \/ \E t \in LockTask : LockCall(t, "start", "start_R")
  \/ \E t \in LockTask : LockCall(t, "stop", "stop_R")
  \/ \E t \in LockTask : LockCall(t, "broadcast", "bc_R")
  \/ \E t \in LockTask : LockCall(t, "unicast", "uc_R")
  \/ \E t \in LockTask : LockCall(t, "get_connected_nodes", "gcn_R")
  \/ \E t \in LockTask : LockCall(t, "get_local_node_id", "glid_L")
  \/ \E t \in LockTask : LockCall(t, "connect_to_known_servers_delayed", "conn_N")
  \/ LockAddKnownServer
  \/ \E t \in LockTask : StartCheck(t)
  \/ \E t \in LockTask : StartRegister(t)
  \/ \E t \in LockTask : StartStoreId(t)
  \/ \E t \in LockTask : StartStoreNet(t)
  \/ \E t \in LockTask : StopCheck(t)
  \/ \E t \in LockTask : StopReadId(t)
  \/ \E t \in LockTask : StopUnregister(t)
  \/ \E t \in LockTask : StopClearId(t)
  \/ \E t \in LockTask : StopClearNet(t)
  \/ \E t \in LockTask : BroadcastCheck(t)
  \/ \E t \in LockTask : BroadcastNet(t)
  \/ \E t \in LockTask : BroadcastNodes(t)
  \/ \E t \in LockTask : BroadcastLocal(t)
  \/ \E t \in LockTask : BroadcastRpcReturn(t)
  \/ \E t \in LockTask : UnicastCheck(t)
  \/ \E t \in LockTask : UnicastResolve(t)
  \/ \E t \in LockTask : UnicastNet(t)
  \/ \E t \in LockTask : UnicastRpcReturn(t)
  \/ \E t \in LockTask : GetConnectedCheck(t)
  \/ \E t \in LockTask : GetConnectedNodes(t)
  \/ \E t \in LockTask : GetConnectedCollect(t)
  \/ \E t \in LockTask : GetLocalNodeId(t)
  \/ \E t \in LockTask : ConnectNet(t)
  \/ \E t \in LockTask : ConnectReturn(t)
  \/ \E t \in LockTask : ConnectReadId(t)
  \/ \E t \in LockTask : ConnectRegister(t)
  \/ \E t \in LockTask : Park(t)
  \/ \E t \in LockTask : Reset(t)

LockSpec == LockInit /\ [][LockNext]_vars

\* ---------------------------------------------------------------- handler tables
\* AnemoNetworkService::register_message_handler: handlers.insert(type, handler)
register_message_handler(T, h) ==
  /\ message_handlers' = Insert(message_handlers, T, h)
  /\ last_op' = [last_op EXCEPT ![<<"AnemoNetworkService", T>>] =
                                    Registered(h, T \in Keys(message_handlers))]
  /\ UNCHANGED <<transport_vars, timesync_vars, chat_vars, service_handlers, handlers, inbound_vars, bus_vars>>

\* NetworkService::register_message_handler_internal: handlers.insert(type, handler)
register_message_handler_internal(T, h) ==
  /\ service_handlers' = Insert(service_handlers, T, h)
  /\ last_op' = [last_op EXCEPT ![<<"NetworkService", T>>] =
                                    Registered(h, T \in Keys(service_handlers))]
  /\ UNCHANGED <<transport_vars, timesync_vars, chat_vars, message_handlers, handlers, inbound_vars, bus_vars>>

\* NetworkService::get_message_handler: handlers.get(type).cloned()
get_message_handler(T) ==
  IF T \in Keys(service_handlers) THEN Some(service_handlers[T]) ELSE None

\* EventBus::register_handler: handlers.insert(handler.name(), handler)
register_handler(h) ==
  /\ handlers' = Insert(handlers, h.name, h)
  /\ last_op' = [last_op EXCEPT ![<<"EventBus", h.name>>] =
                                    Registered(h, h.name \in Keys(handlers))]
  /\ UNCHANGED <<transport_vars, timesync_vars, chat_vars, message_handlers, service_handlers, inbound_vars, bus_vars>>

\* EventBus::unregister_handler: handlers.remove(name)
unregister_handler(name) ==
  /\ handlers' = Remove(handlers, name)
  /\ last_op' = [last_op EXCEPT ![<<"EventBus", name>>] =
                                    Unregistered(name \in Keys(handlers))]
  /\ UNCHANGED <<transport_vars, timesync_vars, chat_vars, message_handlers, service_handlers, inbound_vars, bus_vars>>

\* EventBus::handler_count: handlers.len()
handler_count == Cardinality(Keys(handlers))

\* ---------------------------------------------------------------- event bus
\* broadcast::channel(capacity) keeps a ring of next_power_of_two(capacity) slots.
RECURSIVE PowerOfTwoFrom(_, _)
PowerOfTwoFrom(p, n) == IF p >= n THEN p ELSE PowerOfTwoFrom(2 * p, n)
next_power_of_two(n) == PowerOfTwoFrom(1, n)
BufferSize == next_power_of_two(capacity)
\* The position of the oldest value the ring still holds.
Oldest(ch) == IF Len(ch) > BufferSize THEN Len(ch) - BufferSize + 1 ELSE 1

\* self.sender.send(event): Err when no receiver exists (the value is dropped and
\* publish only warns), else the value takes the next slot of the ring.
SenderSendKeepingOldest(ch, rx, e) ==
  IF Keys(rx) = {} \/ \E r \in Keys(rx) : rx[r].next < Oldest(Append(ch, e))
  THEN ch ELSE Append(ch, e)
SenderSend(ch, rx, e) == IF Keys(rx) = {} THEN ch ELSE Append(ch, e)

\* publish up to its suspension point handlers.read().await: the send.
PublishSend(e) ==
  /\ channel' = SenderSend(channel, receivers, e)
  /\ published' = Append(published, e)

\* The task publish spawns for a handler: timeout(30s, handler.handle_event(event)).
EventTask(c, e, h) == [call |-> c, event |-> e, handler |-> h, st |-> "running"]
SpawnedFirstOnly(c, e, hs) ==
  IF Keys(hs) = {} THEN {} ELSE {EventTask(c, e, hs[CHOOSE n \in Keys(hs) : TRUE])}
Spawned(c, e, hs) == {EventTask(c, e, hs[n]) : n \in Keys(hs)}
\* publish from handlers.read().await on: one task per registered handler.
PublishSpawn(c, e) == event_tasks' = event_tasks \cup Spawned(c, e, handlers)

\* A client of the bus calls publish(event).
CallPublish(k) ==
  /\ pubs[k].pc = "none"
  /\ \A j \in 1..(k - 1) : pubs[j].pc # "none"
  /\ pubs' = [pubs EXCEPT ![k] = [pc |-> "send",
                                  event |-> MessageSentEvent(Peer, <<"uuid", k>>)]]
  /\ UNCHANGED <<transport_vars, timesync_vars, chat_vars, table_vars, capacity, inbound_vars, channel, receivers,
                 event_tasks, published>>

PublishSendStepBounded(k) ==
  /\ pubs[k].pc = "send"
  /\ \A r \in Keys(receivers) : Len(channel) - receivers[r].next + 1 < BufferSize
  /\ PublishSend(pubs[k].event)
  /\ pubs' = [pubs EXCEPT ![k].pc = "spawn"]
  /\ UNCHANGED <<transport_vars, timesync_vars, chat_vars, table_vars, capacity, inbound_vars, receivers, event_tasks>>
PublishSendStep(k) ==
  /\ pubs[k].pc = "send"
  /\ PublishSend(pubs[k].event)
  /\ pubs' = [pubs EXCEPT ![k].pc = "spawn"]
  /\ UNCHANGED <<transport_vars, timesync_vars, chat_vars, table_vars, capacity, inbound_vars, receivers, event_tasks>>

PublishSpawnStep(k) ==
  /\ pubs[k].pc = "spawn"
  /\ PublishSpawn(<<"publish", k>>, pubs[k].event)
  /\ pubs' = [pubs EXCEPT ![k].pc = "done"]
  /\ UNCHANGED <<transport_vars, timesync_vars, chat_vars, table_vars, capacity, inbound_vars, channel, receivers, published>>

\* A spawned handler task ends: handle_event returned, the 30 s timeout fired
\* (logged), or the handler panicked.
EventHandlerEnds(task) ==
  /\ task.st = "running"
  /\ \E st \in {"done", "timeout", "panicked"} :
       event_tasks' = (event_tasks \ {task}) \cup {[task EXCEPT !.st = st]}
  /\ UNCHANGED <<transport_vars, timesync_vars, chat_vars, table_vars, capacity, inbound_vars, channel, receivers,
                 published, pubs>>

\* subscribe(): a new receiver, positioned after the last value sent.
Subscribe(r) ==
  /\ r \notin Keys(receivers)
  /\ \A j \in 1..(r - 1) : j \in Keys(receivers)
  /\ receivers' = Insert(receivers, r, [next |-> Len(channel) + 1,
                                        since |-> Len(channel) + 1, seen |-> <<>>])
  /\ UNCHANGED <<transport_vars, timesync_vars, chat_vars, table_vars, capacity, inbound_vars, channel, event_tasks,
                 published, pubs>>

\* Receiver::recv: Lagged(n) when the values it had not read were overwritten (it
\* goes on from the oldest value held), else the next value; it waits at the end.
Lagged(n) == Err("Lagged", n)
RecvResult(ch, next) ==
  IF next < Oldest(ch) THEN Lagged(Oldest(ch) - next) ELSE Ok(ch[next])
Recv(r) ==
  /\ r \in Keys(receivers)
  /\ receivers[r].next <= Len(channel)
  /\ LET res == RecvResult(channel, receivers[r].next) IN
     receivers' = [receivers EXCEPT
                     ![r].next = IF res.ok THEN @ + 1 ELSE Oldest(channel),
                     ![r].seen = Append(@, res)]
  /\ UNCHANGED <<transport_vars, timesync_vars, chat_vars, table_vars, capacity, inbound_vars, channel, event_tasks,
                 published, pubs>>

\* ---------------------------------------------------------------- inbound dispatch
\* A request reaches the network of a Running service.  start handed the network
\* Router::new(), which has no route: the request is answered by the transport
\* and no code of the service runs.
RouterServe(i, T) ==
  /\ \A U \in MessageType : InMessage(i, U) \notin delivered
  /\ delivered' = delivered \cup {InMessage(i, T)}
  /\ UNCHANGED <<transport_vars, timesync_vars, chat_vars, table_vars, incoming, dispatch, bus_vars>>

\* NetworkService::handle_incoming_message(from, message) is called.
CallHandleIncoming(i) ==
  /\ incoming[i].pc = "none"
  /\ \A j \in 1..(i - 1) : incoming[j].pc # "none"
  /\ \E T \in MessageType :
       incoming' = [incoming EXCEPT ![i] = [NoIncoming EXCEPT !.pc = "publish_send",
                                                             !.message = InMessage(i, T)]]
  /\ UNCHANGED <<transport_vars, timesync_vars, chat_vars, table_vars, delivered, dispatch, bus_vars>>

\* self.event_bus.publish(MessageReceived { from, message }).await
HandleIncomingPublishSkipped(i) ==
  /\ incoming[i].pc = "publish_send"
  /\ incoming' = [incoming EXCEPT ![i].pc = "publish_spawn"]
  /\ UNCHANGED <<transport_vars, timesync_vars, chat_vars, table_vars, delivered, dispatch, bus_vars>>
HandleIncomingPublish(i) ==
  /\ incoming[i].pc = "publish_send"
  /\ PublishSend(MessageReceived(Peer, incoming[i].message))
  /\ incoming' = [incoming EXCEPT ![i].pc = "publish_spawn"]
  /\ UNCHANGED <<transport_vars, timesync_vars, chat_vars, table_vars, capacity, delivered, dispatch, receivers,
                 event_tasks, pubs>>

HandleIncomingSpawn(i) ==
  /\ incoming[i].pc = "publish_spawn"
  /\ PublishSpawn(<<"MessageReceived", i>>, MessageReceived(Peer, incoming[i].message))
  /\ incoming' = [incoming EXCEPT ![i].pc = "lookup"]
  /\ UNCHANGED <<transport_vars, timesync_vars, chat_vars, table_vars, capacity, delivered, dispatch, channel, receivers,
                 published, pubs>>

\* if let Some(handler) = self.get_message_handler(..).await { tokio::spawn(..) }
\* else warn; Ok(())
Dispatch(h) == [st |-> "running", handler |-> h]
HandleIncomingDispatchSerial(i) ==
  /\ incoming[i].pc = "lookup"
  /\ \A j \in 1..MaxInbound : dispatch[j].st # "running"
  /\ LET h == get_message_handler(incoming[i].message.message_type) IN
     dispatch' = IF IsSome(h) THEN [dispatch EXCEPT ![i] = Dispatch(h)] ELSE dispatch
  /\ incoming' = [incoming EXCEPT ![i].pc = "done", ![i].ret = Ok(Unit)]
  /\ UNCHANGED <<transport_vars, timesync_vars, chat_vars, table_vars, delivered, bus_vars>>
HandleIncomingDispatch(i) ==
  /\ incoming[i].pc = "lookup"
  /\ LET h == get_message_handler(incoming[i].message.message_type) IN
     dispatch' = IF IsSome(h) THEN [dispatch EXCEPT ![i] = Dispatch(h)] ELSE dispatch
  /\ incoming' = [incoming EXCEPT ![i].pc = "done", ![i].ret = Ok(Unit)]
  /\ UNCHANGED <<transport_vars, timesync_vars, chat_vars, table_vars, delivered, bus_vars>>

\* The spawned task: handler.handle_message(from, message).await returns Ok(_) or
\* Err(e); the handler may also never return.
HandlerReturns(i) ==
  /\ dispatch[i].st = "running"
  /\ \E st \in {"ok", "error_send"} : dispatch' = [dispatch EXCEPT ![i].st = st]
  /\ UNCHANGED <<transport_vars, timesync_vars, chat_vars, table_vars, delivered, incoming, bus_vars>>

\* Err(e) => event_bus.publish(NetworkEvent::Error { error: format!(.., from, e) }).await
HandlerFailure(from, e) == ErrorEvent([from |-> from, error |-> e])
DispatchErrorPublishSkipped(i) ==
  /\ dispatch[i].st = "error_send"
  /\ dispatch' = [dispatch EXCEPT ![i].st = "error_spawn"]
  /\ UNCHANGED <<transport_vars, timesync_vars, chat_vars, table_vars, delivered, incoming, bus_vars>>
DispatchErrorPublish(i) ==
  /\ dispatch[i].st = "error_send"
  /\ PublishSend(HandlerFailure(Peer, "handler error"))
  /\ dispatch' = [dispatch EXCEPT ![i].st = "error_spawn"]
  /\ UNCHANGED <<transport_vars, timesync_vars, chat_vars, table_vars, capacity, delivered, incoming, receivers,
                 event_tasks, pubs>>

DispatchErrorSpawn(i) ==
  /\ dispatch[i].st = "error_spawn"
  /\ PublishSpawn(<<"Error", i>>, HandlerFailure(Peer, "handler error"))
  /\ dispatch' = [dispatch EXCEPT ![i].st = "error_done"]
  /\ UNCHANGED <<transport_vars, timesync_vars, chat_vars, table_vars, capacity, delivered, incoming, channel, receivers,
                 published, pubs>>

\* ---------------------------------------------------------------- specifications
\* The handler tables under every sequence of registration calls.
RegistryNext ==
  \/ \E T \in MessageType, h \in MessageHandler : register_message_handler(T, h)
  \/ \E T \in MessageType, h \in MessageHandler : register_message_handler_internal(T, h)
  \/ \E h \in EventHandler : register_handler(h)
  \/ \E name \in EventHandlerName : unregister_handler(name)

RegistrySpec == Init /\ [][RegistryNext]_vars

\* The handlers main.rs registers.
MainHandlers == {<<"chat", "chat_handler">>, <<"timesync", "timesync_handler">>}

\* Inbound dispatch: the transport side of a started service, and
\* NetworkService::handle_incoming_message with the tasks it spawns.
InboundNext ==
  \/ \E x \in MainHandlers : register_message_handler(x[1], x[2])
  \/ \E x \in MainHandlers : register_message_handler_internal(x[1], x[2])
  \/ \E i \in 1..MaxInbound, T \in MessageType : RouterServe(i, T)
  \/ \E i \in 1..MaxInbound : CallHandleIncoming(i)
  \/ \E i \in 1..MaxInbound : HandleIncomingPublish(i)
  \/ \E i \in 1..MaxInbound : HandleIncomingSpawn(i)
  \/ \E i \in 1..MaxInbound : HandleIncomingDispatch(i)
  \/ \E i \in 1..MaxInbound : HandlerReturns(i)
  \/ \E i \in 1..MaxInbound : DispatchErrorPublish(i)
  \/ \E i \in 1..MaxInbound : DispatchErrorSpawn(i)

InboundSpec == Init /\ [][InboundNext]_vars
\* The runtime runs every task that can take a step; a caller need not call and
\* a handler need not return.
InboundFairSpec ==
  /\ InboundSpec
  /\ \A i \in 1..MaxInbound :
       /\ WF_vars(HandleIncomingPublish(i))
       /\ WF_vars(HandleIncomingSpawn(i))
       /\ WF_vars(HandleIncomingDispatch(i))
       /\ WF_vars(DispatchErrorPublish(i))
       /\ WF_vars(DispatchErrorSpawn(i))

\* The event bus with its named handlers: publishers, the handler tasks publish
\* spawns, and a channel subscriber that does not read.
BusNext ==
  \/ \E h \in {x \in EventHandler : x.obj = "a" /\ x.name \notin Keys(handlers)} :
       register_handler(h)
  \/ \E k \in 1..MaxBusPublish : CallPublish(k)
  \/ \E k \in 1..MaxBusPublish : PublishSendStep(k)
  \/ \E k \in 1..MaxBusPublish : PublishSpawnStep(k)
  \/ \E task \in event_tasks : EventHandlerEnds(task)
  \/ Subscribe(1)

BusSpec == Init /\ [][BusNext]_vars

\* The broadcast channel of the bus: a publisher and subscribers.
ChannelNext ==
  \/ \E k \in 1..MaxPublish :
       (\A j \in 1..(k - 1) : pubs[j].pc = "done") /\ CallPublish(k)
  \/ \E k \in 1..MaxPublish : PublishSendStep(k)
  \/ \E k \in 1..MaxPublish : PublishSpawnStep(k)
  \/ \E r \in 1..NumSub : Subscribe(r)
  \/ \E r \in 1..NumSub : Recv(r)

\* EventBus::new(capacity) for the capacities a caller may give.
ChannelInit == Constructed /\ capacity \in 1..MaxCapacity
ChannelSpec == ChannelInit /\ [][ChannelNext]_vars

\* ---------------------------------------------------------------- timesync requests
\* The system clock advances.
Tick ==
  /\ clock < MaxClock
  /\ clock' = clock + 1
  /\ UNCHANGED <<transport_vars, dispatch_vars, chat_vars, request_vars, heartbeat_vars>>

\* i64 subtraction and abs: on overflow a build with overflow checks panics and
\* one without wraps.
SubOutcomes(a, b) == IF Overflows(a - b) THEN {Panic, Ok(Wrap(a - b))} ELSE {Ok(a - b)}
AbsOutcomes(x) == IF x = MinInt THEN {Panic, Ok(MinInt)} ELSE {Ok(IF x < 0 THEN 0 - x ELSE x)}

\* TimeSyncService::validate_timestamp: the results it can give at clock value
\* current.
CheckDiff(timestamp, diff) ==
  IF diff > MaxTimeDiff THEN InvalidTimestamp(timestamp) ELSE Ok(Unit)
validate_timestamp(current, timestamp) ==
  UNION {IF ~d.ok THEN {d}
         ELSE {IF ~a.ok THEN a ELSE CheckDiff(timestamp, a.val) : a \in AbsOutcomes(d.val)}
         : d \in SubOutcomes(current, timestamp)}

\* TimeSyncService::calculate_time_diff_ms
calculate_time_diff_ms(time1, time2) == SubOutcomes(time1, time2)

\* f64 arithmetic with an integer operand.
FMul(x, k) ==
  IF x.kind = "finite" THEN Finite(x.num * k, x.den)
  ELSE IF x.kind = "nan" \/ k = 0 THEN NaN
  ELSE IF (x.kind = "inf") = (k > 0) THEN Infinity ELSE NegInfinity
FAdd(x, v) == IF x.kind = "finite" THEN Finite(x.num + v * x.den, x.den) ELSE x
FDiv(x, n) ==
  IF x.kind = "finite"
  THEN IF n # 0 THEN Finite(x.num, x.den * n)
       ELSE IF x.num > 0 THEN Infinity ELSE IF x.num < 0 THEN NegInfinity ELSE NaN
  ELSE x
\* (avg * (total_count - 1.0) + response_time) / total_count
Average(avg, total_count, response_time) ==
  FDiv(FAdd(FMul(avg, total_count - 1), response_time), total_count)

\* TimeSyncService::update_stats
Counted(st, request_processed) ==
  IF request_processed THEN [st EXCEPT !.total_requests = @ + 1]
  ELSE [st EXCEPT !.total_responses = @ + 1]
update_stats(request_processed, response_time_ms) ==
  LET counted == Counted(stats, request_processed)
      averaged == IF response_time_ms = None THEN counted
                  ELSE [counted EXCEPT !.avg_response_time_ms =
                          Average(@, counted.total_responses, Unwrap(response_time_ms))]
  IN stats' = [averaged EXCEPT !.last_sync_time = Some(clock),
                               !.active_sessions = Cardinality(Keys(sync_sessions))]

\* What network_service.unicast can return to the service, and whether it handed
\* the message to the transport: Ok(message_id), or an error before the
\* transport call (target unknown) or of it.
UnicastOutcome ==
  {[result |-> Ok(Unit), on_wire |-> TRUE],
   [result |-> NetworkError("SendError"), on_wire |-> TRUE],
   [result |-> NetworkError("NodeNotFound"), on_wire |-> FALSE]}
OnWire(out, message) == wire' = IF out.on_wire THEN Append(wire, message) ELSE wire

TimeRequest(c) ==
  [request_id |-> ts_calls[c].request_id, from_node |-> ts_calls[c].from,
   client_timestamp |-> ts_calls[c].client_time, call |-> c]
TimeResponseUnechoed(c) ==
  [kind |-> "TimeResponse", to |-> ts_calls[c].from, call |-> c,
   request_id |-> ts_calls[c].request_id, server_timestamp |-> ts_calls[c].sent_at,
   client_timestamp |-> ts_calls[c].sent_at]
TimeResponse(c) ==
  [kind |-> "TimeResponse", to |-> ts_calls[c].from, call |-> c,
   request_id |-> ts_calls[c].request_id, server_timestamp |-> ts_calls[c].sent_at,
   client_timestamp |-> ts_calls[c].client_time]
SyncResponse(c) ==
  [kind |-> "SyncResponse", to |-> ts_calls[c].from, call |-> c,
   request_id |-> ts_calls[c].request_id, server_time |-> ts_calls[c].sent_at,
   client_time |-> ts_calls[c].client_time,
   time_offset_ms |-> ts_calls[c].time_offset_ms,
   round_trip_time_ms |-> RoundTripTimeMs]

NextTsCall(c) ==
  /\ ts_calls[c].op = "none"
  /\ \A b \in 1..(c - 1) : ts_calls[b].op # "none"

TimeRequestReceiveCounting(c, from, request_id, client_timestamp) ==
  /\ NextTsCall(c)
  /\ \E r \in validate_timestamp(clock, client_timestamp) :
       ts_calls' = [ts_calls EXCEPT ![c] =
                      [NoTsCall EXCEPT !.op = "time", !.from = from,
                                       !.request_id = request_id,
                                       !.client_time = client_timestamp,
                                       !.received_at = clock,
                                       !.pc = IF r.ok THEN "insert" ELSE "done",
                                       !.ret = IF r.ok THEN NoRet ELSE r]]
  /\ update_stats(TRUE, None)
  /\ UNCHANGED <<transport_vars, dispatch_vars, chat_vars, clock, pending_requests, sync_sessions,
                 wire, heartbeat_vars>>
\* handle_time_request up to pending_requests.write().await: the validation.
TimeRequestReceive(c, from, request_id, client_timestamp) ==
  /\ NextTsCall(c)
  /\ \E r \in validate_timestamp(clock, client_timestamp) :
       ts_calls' = [ts_calls EXCEPT ![c] =
                      [NoTsCall EXCEPT !.op = "time", !.from = from,
                                       !.request_id = request_id,
                                       !.client_time = client_timestamp,
                                       !.received_at = clock,
                                       !.pc = IF r.ok THEN "insert" ELSE "done",
                                       !.ret = IF r.ok THEN NoRet ELSE r]]
  /\ UNCHANGED <<transport_vars, dispatch_vars, chat_vars, clock, pending_requests, sync_sessions,
                 stats, wire, heartbeat_vars>>

\* requests.insert(request_id, TimeRequest {..})
TimeRequestInsert(c) ==
  /\ ts_calls[c].op = "time" /\ ts_calls[c].pc = "insert"
  /\ pending_requests' = Insert(pending_requests, ts_calls[c].request_id, TimeRequest(c))
  /\ ts_calls' = [ts_calls EXCEPT ![c].pc = "send"]
  /\ UNCHANGED <<transport_vars, dispatch_vars, chat_vars, clock, sync_sessions, stats, wire,
                 heartbeat_vars>>

\* send_time_response up to network_service.unicast(..).await
TimeResponseSend(c) ==
  /\ ts_calls[c].op = "time" /\ ts_calls[c].pc = "send"
  /\ ts_calls' = [ts_calls EXCEPT ![c].pc = "unicast", ![c].sent_at = clock]
  /\ UNCHANGED <<transport_vars, dispatch_vars, chat_vars, clock, pending_requests, sync_sessions,
                 stats, wire, heartbeat_vars>>

\* unicast returns: `.await?` ends handle_time_request on an error.
TimeResponseUnicastReturns(c) ==
  /\ ts_calls[c].op = "time" /\ ts_calls[c].pc = "unicast"
  /\ \E out \in UnicastOutcome :
       /\ OnWire(out, TimeResponse(c))
       /\ ts_calls' = [ts_calls EXCEPT
                         ![c].pc = IF out.result.ok THEN "remove" ELSE "done",
                         ![c].ret = IF out.result.ok THEN NoRet ELSE out.result]
  /\ UNCHANGED <<transport_vars, dispatch_vars, chat_vars, clock, pending_requests, sync_sessions,
                 stats, heartbeat_vars>>

\* requests.remove(&request_id)
TimeRequestRemove(c) ==
  /\ ts_calls[c].op = "time" /\ ts_calls[c].pc = "remove"
  /\ pending_requests' = Remove(pending_requests, ts_calls[c].request_id)
  /\ ts_calls' = [ts_calls EXCEPT ![c].pc = "stats"]
  /\ UNCHANGED <<transport_vars, dispatch_vars, chat_vars, clock, sync_sessions, stats, wire,
                 heartbeat_vars>>

\* self.update_stats(true, None).await; Ok(())
TimeRequestStats(c) ==
  /\ ts_calls[c].op = "time" /\ ts_calls[c].pc = "stats"
  /\ update_stats(TRUE, None)
  /\ ts_calls' = [ts_calls EXCEPT ![c].pc = "done", ![c].ret = Ok(Unit)]
  /\ UNCHANGED <<transport_vars, dispatch_vars, chat_vars, clock, pending_requests, sync_sessions,
                 wire, heartbeat_vars>>

\* handle_sync_request up to sync_sessions.write().await: the validation of the
\* timestamp, then of the interval, then the offset.
CheckInterval(sync_interval_ms) ==
  IF sync_interval_ms < MinSyncInterval \/ sync_interval_ms > MaxSyncInterval
  THEN InvalidSyncInterval(sync_interval_ms) ELSE Ok(Unit)
SyncRequestReceive(c, from, request_id, client_time, sync_interval_ms) ==
  /\ NextTsCall(c)
  /\ \E v \in validate_timestamp(clock, client_time),
        d \in calculate_time_diff_ms(clock, client_time) :
       LET r == IF ~v.ok THEN v
                ELSE IF ~CheckInterval(sync_interval_ms).ok
                     THEN CheckInterval(sync_interval_ms) ELSE d
       IN ts_calls' = [ts_calls EXCEPT ![c] =
                         [NoTsCall EXCEPT !.op = "sync", !.from = from,
                                          !.request_id = request_id,
                                          !.client_time = client_time,
                                          !.sync_interval_ms = sync_interval_ms,
                                          !.received_at = clock,
                                          !.server_time = clock,
                                          !.time_offset_ms = IF r.ok THEN r.val ELSE 0,
                                          !.pc = IF r.ok THEN "session" ELSE "done",
                                          !.ret = IF r.ok THEN NoRet ELSE r]]
  /\ UNCHANGED <<transport_vars, dispatch_vars, chat_vars, clock, pending_requests, sync_sessions,
                 stats, wire, heartbeat_vars>>

\* sessions.entry(from).or_insert_with(..), then the four assignments.
SyncSession(c, request_count) ==
  [node_id |-> ts_calls[c].from, last_sync_time |-> ts_calls[c].server_time,
   time_offset_ms |-> ts_calls[c].time_offset_ms,
   sync_interval_ms |-> ts_calls[c].sync_interval_ms, request_count |-> request_count,
   call |-> c]
UpsertSessionReplacing(sessions, c) ==
  Insert(sessions, ts_calls[c].from, SyncSession(c, 1))
UpsertSession(sessions, c) ==
  Insert(sessions, ts_calls[c].from,
         SyncSession(c, IF ts_calls[c].from \in Keys(sessions)
                        THEN sessions[ts_calls[c].from].request_count + 1 ELSE 1))
SyncSessionUpdate(c) ==
  /\ ts_calls[c].op = "sync" /\ ts_calls[c].pc = "session"
  /\ sync_sessions' = UpsertSession(sync_sessions, c)
  /\ ts_calls' = [ts_calls EXCEPT ![c].pc = "send"]
  /\ UNCHANGED <<transport_vars, dispatch_vars, chat_vars, clock, pending_requests, stats, wire,
                 heartbeat_vars>>

\* send_sync_response up to network_service.unicast(..).await
SyncResponseSend(c) ==
  /\ ts_calls[c].op = "sync" /\ ts_calls[c].pc = "send"
  /\ ts_calls' = [ts_calls EXCEPT ![c].pc = "unicast", ![c].sent_at = clock]
  /\ UNCHANGED <<transport_vars, dispatch_vars, chat_vars, clock, pending_requests, sync_sessions,
                 stats, wire, heartbeat_vars>>

SyncResponseUnicastReturns(c) ==
  /\ ts_calls[c].op = "sync" /\ ts_calls[c].pc = "unicast"
  /\ \E out \in UnicastOutcome :
       /\ OnWire(out, SyncResponse(c))
       /\ ts_calls' = [ts_calls EXCEPT
                         ![c].pc = IF out.result.ok THEN "stats" ELSE "done",
                         ![c].ret = IF out.result.ok THEN NoRet ELSE out.result]
  /\ UNCHANGED <<transport_vars, dispatch_vars, chat_vars, clock, pending_requests, sync_sessions,
                 stats, heartbeat_vars>>

\* self.update_stats(true, Some(round_trip_time_ms as f64)).await; Ok(())
SyncRequestStats(c) ==
  /\ ts_calls[c].op = "sync" /\ ts_calls[c].pc = "stats"
  /\ update_stats(TRUE, Some(RoundTripTimeMs))
  /\ ts_calls' = [ts_calls EXCEPT ![c].pc = "done", ![c].ret = Ok(Unit)]
  /\ UNCHANGED <<transport_vars, dispatch_vars, chat_vars, clock, pending_requests, sync_sessions,
                 wire, heartbeat_vars>>

\* Time queries served by one TimeSyncService.
TimeNext ==
  \/ Tick
  \/ \E c \in 1..MaxTsCalls, from \in SyncPeer, id \in RequestId, ts \in Timestamp :
       TimeRequestReceive(c, from, id, ts)
  \/ \E c \in 1..MaxTsCalls : TimeRequestInsert(c)
  \/ \E c \in 1..MaxTsCalls : TimeResponseSend(c)
  \/ \E c \in 1..MaxTsCalls : TimeResponseUnicastReturns(c)
  \/ \E c \in 1..MaxTsCalls : TimeRequestRemove(c)
  \/ \E c \in 1..MaxTsCalls : TimeRequestStats(c)

TimeSpec == Init /\ [][TimeNext]_vars

\* Sync requests served by one TimeSyncService; request_sync mints a fresh id
\* (Uuid::new_v4) for each.
SyncNext ==
  \/ Tick
  \/ \E c \in 1..MaxTsCalls, from \in SyncPeer, ts \in Timestamp, ms \in SyncInterval :
       SyncRequestReceive(c, from, NewRequestId(c), ts, ms)
  \/ \E c \in 1..MaxTsCalls : SyncSessionUpdate(c)
  \/ \E c \in 1..MaxTsCalls : SyncResponseSend(c)
  \/ \E c \in 1..MaxTsCalls : SyncResponseUnicastReturns(c)
  \/ \E c \in 1..MaxTsCalls : SyncRequestStats(c)

SyncSpec == Init /\ [][SyncNext]_vars

\* TimeSyncMessageHandler::handle_message for a TimeResponse, a SyncResponse or
\* a Heartbeat: the message is logged and Ok(None) returned; for a TimeResponse
\* the offset server_timestamp - current_time is computed first.
InfoKind == {"TimeResponse", "SyncResponse", "Heartbeat"}
InfoOutcomes(kind, timestamp) ==
  IF kind = "TimeResponse"
  THEN {IF d.ok THEN Ok(Unit) ELSE d : d \in SubOutcomes(timestamp, clock)}
  ELSE {Ok(Unit)}
HandleInfoAnswering(c, from, kind, timestamp) ==
  /\ NextTsCall(c)
  /\ \E r \in InfoOutcomes(kind, timestamp) :
       ts_calls' = [ts_calls EXCEPT ![c] =
                      [NoTsCall EXCEPT !.op = kind, !.from = from,
                                       !.request_id = NewRequestId(c),
                                       !.client_time = timestamp,
                                       !.received_at = clock,
                                       !.pc = "done", !.ret = r]]
  /\ wire' = Append(wire, [kind |-> kind, to |-> from, call |-> c])
  /\ UNCHANGED <<transport_vars, dispatch_vars, chat_vars, clock, pending_requests, sync_sessions,
                 stats, heartbeat_vars>>
HandleInfo(c, from, kind, timestamp) ==
  /\ NextTsCall(c)
  /\ \E r \in InfoOutcomes(kind, timestamp) :
       ts_calls' = [ts_calls EXCEPT ![c] =
                      [NoTsCall EXCEPT !.op = kind, !.from = from,
                                       !.request_id = NewRequestId(c),
                                       !.client_time = timestamp,
                                       !.received_at = clock,
                                       !.pc = "done", !.ret = r]]
  /\ UNCHANGED <<transport_vars, dispatch_vars, chat_vars, clock, pending_requests, sync_sessions,
                 stats, wire, heartbeat_vars>>

\* The timesync messages a node receives from its peers, each handled by
\* handle_message; the requests carry the fresh id their sender minted.
HandlerNext ==
  \/ Tick
  \/ \E c \in 1..MaxTsCalls, from \in SyncPeer, ts \in Timestamp :
       TimeRequestReceive(c, from, NewRequestId(c), ts)
  \/ \E c \in 1..MaxTsCalls, from \in SyncPeer, ts \in Timestamp, ms \in SyncInterval :
       SyncRequestReceive(c, from, NewRequestId(c), ts, ms)
  \/ \E c \in 1..MaxTsCalls, from \in SyncPeer, kind \in InfoKind, ts \in Timestamp :
       HandleInfo(c, from, kind, ts)
  \/ \E c \in 1..MaxTsCalls : TimeRequestInsert(c)
  \/ \E c \in 1..MaxTsCalls : TimeResponseSend(c)
  \/ \E c \in 1..MaxTsCalls : TimeResponseUnicastReturns(c)
  \/ \E c \in 1..MaxTsCalls : TimeRequestRemove(c)
  \/ \E c \in 1..MaxTsCalls : TimeRequestStats(c)
  \/ \E c \in 1..MaxTsCalls : SyncSessionUpdate(c)
  \/ \E c \in 1..MaxTsCalls : SyncResponseSend(c)
  \/ \E c \in 1..MaxTsCalls : SyncResponseUnicastReturns(c)
  \/ \E c \in 1..MaxTsCalls : SyncRequestStats(c)

HandlerSpec == Init /\ [][HandlerNext]_vars

\* ---------------------------------------------------------------- heartbeat
\* The periods start_heartbeat is called with; interval() panics on a zero period.
HeartbeatInterval == 0..MaxInterval
\* The task ids not yet used by a spawn.
FreeHbTask == {h \in 1..MaxHbTasks : hb_tasks[h].st = "none"}
HbCall(op, interval_ms, outcome) ==
  [op |-> op, interval_ms |-> interval_ms, ret |-> outcome, handle |-> heartbeat_handle]
\* tokio::spawn of the heartbeat loop and the store of its JoinHandle: the new
\* task waits to be polled for the first time.
SpawnHeartbeat(interval_ms) ==
  /\ FreeHbTask # {}
  /\ LET h == CHOOSE x \in FreeHbTask : \A y \in FreeHbTask : x <= y IN
       /\ hb_tasks' = [hb_tasks EXCEPT ![h] = [st |-> "suspended", pc |-> "new",
                                                interval_ms |-> interval_ms,
                                                sequence |-> 0, abort |-> FALSE]]
       /\ heartbeat_handle' = Some(h)
  /\ hb_calls' = Append(hb_calls, HbCall("start", interval_ms, Ok(Unit)))
  /\ UNCHANGED <<heartbeat_sequence, hb_broadcasts>>
start_heartbeat_unchecked(interval_ms) ==
  /\ Len(hb_calls) < MaxHbCalls
  /\ SpawnHeartbeat(interval_ms)
  /\ UNCHANGED <<transport_vars, dispatch_vars, chat_vars, clock, request_vars>>
\* start_heartbeat, under the heartbeat_handle mutex from its first line to its
\* return (no await in between).
start_heartbeat(interval_ms) ==
  /\ Len(hb_calls) < MaxHbCalls
  /\ IF IsSome(heartbeat_handle)
     THEN /\ hb_calls' = Append(hb_calls, HbCall("start", interval_ms, HeartbeatAlreadyStarted))
          /\ UNCHANGED <<heartbeat_handle, heartbeat_sequence, hb_tasks, hb_broadcasts>>
     ELSE SpawnHeartbeat(interval_ms)
  /\ UNCHANGED <<transport_vars, dispatch_vars, chat_vars, clock, request_vars>>
\* JoinHandle::abort: a task that is not being polled is shut down without
\* running again; one that is being polled by another worker runs on until it
\* next yields; a finished task is left as it is.
Abort(task) ==
  [task EXCEPT !.abort = TRUE,
               !.st = IF task.st = "suspended" THEN "cancelled" ELSE task.st]
stop_heartbeat ==
  /\ Len(hb_calls) < MaxHbCalls
  /\ IF IsSome(heartbeat_handle)
     THEN /\ heartbeat_handle' = None
          /\ hb_tasks' = [hb_tasks EXCEPT ![Unwrap(heartbeat_handle)] = Abort(@)]
          /\ hb_calls' = Append(hb_calls, HbCall("stop", 0, Ok(Unit)))
     ELSE /\ hb_calls' = Append(hb_calls, HbCall("stop", 0, HeartbeatNotStarted))
          /\ UNCHANGED <<heartbeat_handle, hb_tasks>>
  /\ UNCHANGED <<transport_vars, dispatch_vars, chat_vars, clock, request_vars,
                 heartbeat_sequence, hb_broadcasts>>
\* The first poll of the task: interval() is built (a zero period panics) and
\* the first tick completes at once.
HbFirstPoll(h) ==
  /\ hb_tasks[h].st = "suspended" /\ hb_tasks[h].pc = "new"
  /\ hb_tasks' = [hb_tasks EXCEPT ![h] = IF @.interval_ms = 0
                                         THEN [@ EXCEPT !.st = "panicked"]
                                         ELSE [@ EXCEPT !.st = "running", !.pc = "incr"]]
  /\ UNCHANGED <<transport_vars, dispatch_vars, chat_vars, clock, request_vars,
                 heartbeat_handle, heartbeat_sequence, hb_broadcasts, hb_calls>>
\* The interval fires and a worker polls the task: interval.tick() returns.
HbTickFires(h) ==
  /\ hb_tasks[h].st = "suspended" /\ hb_tasks[h].pc = "tick"
  /\ hb_tasks' = [hb_tasks EXCEPT ![h].st = "running", ![h].pc = "incr"]
  /\ UNCHANGED <<transport_vars, dispatch_vars, chat_vars, clock, request_vars,
                 heartbeat_handle, heartbeat_sequence, hb_broadcasts, hb_calls>>
\* *seq += 1; *seq under the write lock of heartbeat_sequence.
HbIncr(h) ==
  /\ hb_tasks[h].st = "running" /\ hb_tasks[h].pc = "incr"
  /\ heartbeat_sequence < MaxSequence
  /\ heartbeat_sequence' = heartbeat_sequence + 1
  /\ hb_tasks' = [hb_tasks EXCEPT ![h].sequence = heartbeat_sequence + 1,
                                  ![h].pc = "broadcast"]
  /\ UNCHANGED <<transport_vars, dispatch_vars, chat_vars, clock, request_vars,
                 heartbeat_handle, hb_broadcasts, hb_calls>>
Heartbeat(h) ==
  [kind |-> "Heartbeat", task |-> h, timestamp |-> clock, sequence |-> hb_tasks[h].sequence]
\* The Heartbeat message is built and network_service.broadcast is called; no
\* await lies between the increment and this call.
HbBroadcast(h) ==
  /\ hb_tasks[h].st = "running" /\ hb_tasks[h].pc = "broadcast"
  /\ hb_broadcasts' = Append(hb_broadcasts, Heartbeat(h))
  /\ hb_tasks' = [hb_tasks EXCEPT ![h].pc = "sent"]
  /\ UNCHANGED <<transport_vars, dispatch_vars, chat_vars, clock, request_vars,
                 heartbeat_handle, heartbeat_sequence, hb_calls>>
\* broadcast returns: heartbeat_count is incremented on success only; the loop
\* is back at interval.tick(), where the task yields (and an aborted one ends).
HbBroadcastReturns(h, ok) ==
  /\ hb_tasks[h].st = "running" /\ hb_tasks[h].pc = "sent"
  /\ stats' = IF ok THEN [stats EXCEPT !.heartbeat_count = @ + 1] ELSE stats
  /\ hb_tasks' = [hb_tasks EXCEPT ![h].pc = "tick",
                                  ![h].st = IF hb_tasks[h].abort THEN "cancelled"
                                            ELSE "suspended"]
  /\ UNCHANGED <<transport_vars, dispatch_vars, chat_vars, clock, pending_requests, sync_sessions,
                 ts_calls, wire, heartbeat_handle, heartbeat_sequence, hb_broadcasts,
                 hb_calls>>
\* An aborted task that yields inside an await (the contended write lock, the
\* broadcast in flight) is shut down there.
HbYieldAborted(h) ==
  /\ hb_tasks[h].st = "running" /\ hb_tasks[h].abort
  /\ hb_tasks[h].pc \in {"incr", "sent"}
  /\ hb_tasks' = [hb_tasks EXCEPT ![h].st = "cancelled"]
  /\ UNCHANGED <<transport_vars, dispatch_vars, chat_vars, clock, request_vars,
                 heartbeat_handle, heartbeat_sequence, hb_broadcasts, hb_calls>>

\* One TimeSyncService whose heartbeat is started and stopped while its tasks run
\* on the workers of the runtime.
HeartbeatNext ==
  \/ Tick
  \/ \E ms \in HeartbeatInterval : start_heartbeat(ms)
  \/ stop_heartbeat
  \/ \E h \in 1..MaxHbTasks : HbFirstPoll(h)
  \/ \E h \in 1..MaxHbTasks : HbTickFires(h)
  \/ \E h \in 1..MaxHbTasks : HbIncr(h)
  \/ \E h \in 1..MaxHbTasks : HbBroadcast(h)
  \/ \E h \in 1..MaxHbTasks, ok \in BOOLEAN : HbBroadcastReturns(h, ok)
  \/ \E h \in 1..MaxHbTasks : HbYieldAborted(h)

HeartbeatSpec == Init /\ [][HeartbeatNext]_vars

\* ---------------------------------------------------------------- chat
ChatResponseSuccess == Ok(Unit)
ChatResponseError(msg) == Err("ChatResponse", msg)
ChatUser(peer_id, username) == [peer_id |-> peer_id, username |-> username]
NextChatCall(c) ==
  /\ chat_calls[c].op = "none"
  /\ \A b \in 1..(c - 1) : chat_calls[b].op # "none"
\* user_join up to drop(username_to_peer): the name check under the read lock.
UserJoinCheck(c, peer_id, username) ==
  /\ NextChatCall(c)
  /\ chat_calls' = [chat_calls EXCEPT ![c] =
                      IF username \in Keys(username_to_peer)
                      THEN [NoChatCall EXCEPT !.op = "user_join", !.pc = "done",
                                              !.peer_id = peer_id, !.username = username,
                                              !.ret = ChatResponseError("username in use")]
                      ELSE [NoChatCall EXCEPT !.op = "user_join", !.pc = "insert",
                                              !.peer_id = peer_id, !.username = username]]
  /\ UNCHANGED <<transport_vars, dispatch_vars, timesync_vars, users, username_to_peer>>
\* users.write(), username_to_peer.write(): the two inserts; the join message
\* goes to the history and the broadcast channel; Ok(ChatResponse::success()).
UserJoinInsert(c) ==
  /\ chat_calls[c].op = "user_join" /\ chat_calls[c].pc = "insert"
  /\ users' = Insert(users, chat_calls[c].peer_id,
                     ChatUser(chat_calls[c].peer_id, chat_calls[c].username))
  /\ username_to_peer' = Insert(username_to_peer, chat_calls[c].username,
                                chat_calls[c].peer_id)
  /\ chat_calls' = [chat_calls EXCEPT ![c].pc = "done", ![c].ret = ChatResponseSuccess]
  /\ UNCHANGED <<transport_vars, dispatch_vars, timesync_vars>>
\* user_leave: both write locks are held over the two removals.
UserLeave(c, peer_id) ==
  /\ NextChatCall(c)
  /\ chat_calls' = [chat_calls EXCEPT ![c] =
                      [NoChatCall EXCEPT !.op = "user_leave", !.pc = "done",
                                         !.peer_id = peer_id, !.ret = Ok(Unit)]]
  /\ IF peer_id \in Keys(users)
     THEN /\ users' = Remove(users, peer_id)
          /\ username_to_peer' = Remove(username_to_peer, users[peer_id].username)
     ELSE UNCHANGED <<users, username_to_peer>>
  /\ UNCHANGED <<transport_vars, dispatch_vars, timesync_vars>>

\* The peers of one ChatService join and leave, concurrently.
ChatNext ==
  \/ \E c \in 1..MaxChatCalls, p \in ChatPeer, n \in Username : UserJoinCheck(c, p, n)
  \/ \E c \in 1..MaxChatCalls : UserJoinInsert(c)
  \/ \E c \in 1..MaxChatCalls, p \in ChatPeer : UserLeave(c, p)

ChatSpec == Init /\ [][ChatNext]_vars

\* ---------------------------------------------------------------- claims
\* Task t takes a step of its operation; the step is the operation's return.
Stepped(t) == pc'[t] # pc[t]
Returned(t) == pc[t] # "done" /\ pc'[t] = "done"
NotStarted == config_error("service not started")
Nodes(snt) == {snt[i].node : i \in 1..Len(snt)}
\* The transport handle of the node named n: the peer identity of the service
\* whose NodeId is n.
OwnPeer(n) == {PeerIdOfKey(PrivateKey(s)) : s \in {x \in Svc : NodeIdOf(x) = n}}
\* The number of calls of snt that went to the transport handle of node n.
Received(snt, n) == Cardinality({i \in 1..Len(snt) : snt[i].peer \in OwnPeer(n)})

\* C1: a start on a Running service fails with a configuration error and leaves
\* the running flag, the local NodeId, the network handle and the registry as
\* they were; a start succeeds only on a service that is not running, turns it
\* Running, and no other start of the same service is past its check meanwhile
\* (so of two concurrent starts of a Stopped service at most one succeeds).
C1_StartOnRunningFails ==
  [][\A t \in Task :
       /\ (pc[t] = "start_R" /\ Stepped(t) /\ is_running[call[t].svc])
            => /\ pc'[t] = "done"
               /\ ret'[t] = config_error("service already started")
               /\ UNCHANGED <<is_running, local_node_id, network, GLOBAL_NODES>>
       /\ (pc[t] = "start_N" /\ Returned(t))
            => /\ ret'[t] = Ok(Unit)
               /\ ~is_running[call[t].svc]
               /\ is_running'[call[t].svc]
               /\ \A u \in Task \ {t} :
                    ~(call[u].op = "start" /\ call[u].svc = call[t].svc
                      /\ pc[u] \in {"start_G", "start_L", "start_N"})
    ]_vars
\* Two starts of one service have returned: one Ok, one with the error.
C1_Witness ==
  \E t \in Task, u \in Task :
    /\ t # u /\ pc[t] = "done" /\ pc[u] = "done"
    /\ call[t].op = "start" /\ call[u].op = "start" /\ call[t].svc = call[u].svc
    /\ ret[t] = Ok(Unit)
    /\ ret[u] = config_error("service already started")
    /\ is_running[call[t].svc]

\* C2: a stop on a Stopped service returns Ok at once and changes neither the
\* registry, nor the local NodeId, the network handle or the running flag of
\* any service.
C2_StopOnStoppedIsNoOp ==
  [][\A t \in Task :
       (pc[t] = "stop_R" /\ Stepped(t) /\ ~is_running[call[t].svc])
         => /\ pc'[t] = "done"
            /\ ret'[t] = Ok(Unit)
            /\ UNCHANGED <<GLOBAL_NODES, is_running, local_node_id, network, known_servers>>
    ]_vars
\* A stop returned Ok without having read a NodeId, with other services registered.
C2_Witness ==
  \E t \in Task :
    /\ pc[t] = "done" /\ call[t].op = "stop" /\ ret[t] = Ok(Unit)
    /\ loc[t].local_id = None
    /\ ~is_running[call[t].svc]
    /\ Keys(GLOBAL_NODES) # {}

\* C3: when a stop of a Running service returns, the registry has no entry
\* under the NodeId the service had, and the removal leaves every other entry
\* as it was.
C3_StopRemovesEntry ==
  [][\A t \in Task :
       /\ (pc[t] = "stop_N" /\ Returned(t))
            => Unwrap(loc[t].local_id) \notin Keys(GLOBAL_NODES')
       /\ (pc[t] = "stop_G" /\ Stepped(t))
            => \A n \in Keys(GLOBAL_NODES) \ loc[t].local_id :
                 n \in Keys(GLOBAL_NODES') /\ GLOBAL_NODES'[n] = GLOBAL_NODES[n]
    ]_vars

\* C4: the list get_connected_nodes returns does not hold the service's local
\* NodeId and holds every other NodeId of the registry.
C4_ConnectedNodesExcludeLocal ==
  [][\A t \in Task :
       (pc[t] = "gcn_L" /\ Returned(t) /\ IsSome(local_node_id[call[t].svc]))
         => /\ ret'[t].ok
            /\ Unwrap(local_node_id[call[t].svc]) \notin ret'[t].val
            /\ \A n \in Keys(GLOBAL_NODES) \ local_node_id[call[t].svc] : n \in ret'[t].val
    ]_vars
\* A list was returned for a registered service with registered peers.
C4_Witness ==
  \E t \in Task :
    /\ pc[t] = "done" /\ call[t].op = "get_connected_nodes" /\ ret[t].ok
    /\ ret[t].val # {}
    /\ is_running[call[t].svc]
    /\ local_node_id[call[t].svc] \subseteq Keys(GLOBAL_NODES)
    /\ local_node_id[call[t].svc] \cap ret[t].val = {}

\* C5: broadcast, unicast and get_connected_nodes on a service that is not
\* Running return a configuration error, issue no transport call and change
\* no state of any service.
C5_NotRunningRejected ==
  [][\A t \in Task :
       (pc[t] \in {"bc_R", "uc_R", "gcn_R"} /\ Stepped(t) /\ ~is_running[call[t].svc])
         => /\ pc'[t] = "done"
            /\ ret'[t] = NotStarted
            /\ sent'[t] = <<>>
            /\ UNCHANGED <<GLOBAL_NODES, is_running, local_node_id, network, known_servers>>
    ]_vars
\* A messaging call was rejected while other nodes were registered.
C5_Witness ==
  \E t \in Task :
    /\ pc[t] = "done" /\ call[t].op \in {"broadcast", "unicast", "get_connected_nodes"}
    /\ ret[t] = NotStarted
    /\ ~is_running[call[t].svc]
    /\ Keys(GLOBAL_NODES) # {}

\* C6: a broadcast that found the service Running returns Ok with the id of its
\* message whatever the per-peer calls did, and by then it has called every
\* entry of the registry that is neither excluded nor the local node, once.
C6_BroadcastSucceedsDespiteFailures ==
  [][\A t \in Task :
       (call[t].op = "broadcast" /\ Returned(t) /\ pc[t] # "bc_R")
         => /\ ret'[t] = Ok(call[t].message)
            /\ pc[t] \in {"bc_L", "bc_rpc"}
                 => /\ Nodes(sent'[t]) = BroadcastTargets(Keys(GLOBAL_NODES),
                                                          local_node_id[call[t].svc],
                                                          call[t].exclude_nodes)
                    /\ Len(sent'[t]) = Cardinality(Nodes(sent'[t]))
    ]_vars
\* A broadcast returned Ok after both of its calls failed.
C6_Witness ==
  \E t \in Task :
    /\ pc[t] = "done" /\ call[t].op = "broadcast" /\ ret[t] = Ok(call[t].message)
    /\ Len(sent[t]) = 2
    /\ \A i \in 1..Len(sent[t]) : sent[t][i].result = "failed"

\* C7 (as claimed): with N registry entries and an exclude set of size k, a
\* broadcast attempts at most N-1-k transport calls, for every exclude set.
C7_AtMostNMinus1MinusK ==
  \A t \in Task :
    pc[t] = "bc_rpc"
      => Len(sent[t]) <= Cardinality(Keys(GLOBAL_NODES)) - 1
                           - Cardinality(call[t].exclude_nodes)
\* C7 (amended): a broadcast attempts at most N-1-k transport calls where k
\* counts the excluded NodeIds that are registry entries other than the local
\* node, when the local node's entry is in the registry, and at most N-k when
\* it is not.
C7_AtMostNMinusRegisteredExcluded ==
  \A t \in Task :
    pc[t] = "bc_rpc"
      => LET nodes == Keys(GLOBAL_NODES)
             local == local_node_id[call[t].svc]
             k == Cardinality((call[t].exclude_nodes \cap nodes) \ local)
         IN Len(sent[t]) <= Cardinality(nodes) - k
                              - (IF IsSome(local) /\ local \subseteq nodes THEN 1 ELSE 0)
\* A broadcast whose exclude set names no registered peer has called all the
\* N-1 other entries.
C7_Witness ==
  \E t \in Task :
    /\ pc[t] = "bc_rpc"
    /\ call[t].exclude_nodes # {}
    /\ local_node_id[call[t].svc] \subseteq Keys(GLOBAL_NODES)
    /\ IsSome(local_node_id[call[t].svc])
    /\ Len(sent[t]) = Cardinality(Keys(GLOBAL_NODES)) - 1
    /\ Len(sent[t]) = 2

\* C8: when a broadcast of a service with a local NodeId ends and every call
\* succeeded, every registered node other than the sender and outside the
\* exclude set has received exactly one call, with the message's id, and the
\* sender and the excluded nodes have received none.
C8_EachPeerReceivesOnce ==
  [][\A t \in Task :
       (pc[t] \in {"bc_L", "bc_rpc"} /\ Returned(t)
        /\ IsSome(local_node_id[call[t].svc])
        /\ \A i \in 1..Len(sent'[t]) : sent'[t][i].result = "ok")
         => \A n \in Keys(GLOBAL_NODES) \cup call[t].exclude_nodes :
              IF n \in local_node_id[call[t].svc] \cup call[t].exclude_nodes
              THEN Received(sent'[t], n) = 0
              ELSE /\ Received(sent'[t], n) = 1
                   /\ \A i \in 1..Len(sent'[t]) : sent'[t][i].message = call[t].message
    ]_vars

\* C9: a unicast of a Running service to a target that is not in the registry
\* returns the node-not-found error naming the target, without a transport call.
C9_UnknownTargetNotFound ==
  [][\A t \in Task :
       (pc[t] = "uc_try" /\ Stepped(t) /\ is_running[call[t].svc]
        /\ Unwrap(call[t].target) \notin Keys(GLOBAL_NODES))
         => /\ pc'[t] = "done"
            /\ ret'[t] = node_not_found(Unwrap(call[t].target))
            /\ sent'[t] = <<>>
    ]_vars

\* C10: a unicast of a Running service to a registered target issues exactly one
\* transport call; it returns the message's id when the call succeeds and a send
\* error when it fails.
C10_UnicastCallsOnce ==
  [][\A t \in Task :
       /\ (pc[t] = "uc_try" /\ Stepped(t) /\ is_running[call[t].svc]
           /\ Unwrap(call[t].target) \in Keys(GLOBAL_NODES))
            => pc'[t] = "uc_N"
       /\ (pc[t] = "uc_N" /\ Stepped(t) /\ is_running[call[t].svc])
            => pc'[t] = "uc_rpc" /\ Len(sent'[t]) = 1
       /\ (pc[t] = "uc_rpc" /\ Stepped(t))
            => /\ pc'[t] = "done"
               /\ Len(sent'[t]) = 1
               /\ sent'[t][1].result = "ok" => ret'[t] = Ok(call[t].message)
               /\ sent'[t][1].result = "failed" => ret'[t] = send_error("rpc failed")
    ]_vars

\* C11: a task suspended in a transport call (a broadcast's per-peer call, the
\* unicast's call, a connect) holds no reader/writer lock, and no start, stop or
\* registry mutation waits for a lock such a task holds.
C11_NoLockAcrossTransportCall ==
  \A t \in Task :
    pc[t] \in {"bc_rpc", "uc_rpc", "conn_call"}
      => \A l \in LockId : ~Holds(locks, l, t)

\* C12: when a type-T message reaches a Running node on which a handler is
\* registered for T through register_message_handler, that handler is eventually
\* invoked with the message and the sender's NodeId.
C12_HandlerEventuallyInvoked ==
  \A i \in 1..MaxInbound, T \in MessageType :
    (InMessage(i, T) \in delivered /\ T \in Keys(message_handlers))
      ~> (\E j \in 1..MaxInbound :
            /\ T \in Keys(message_handlers)
            /\ dispatch[j].st # "none"
            /\ incoming[j].message = InMessage(i, T)
            /\ dispatch[j].handler = Some(message_handlers[T]))

\* C13: in both handler tables a message type has a handler iff one was
\* registered for it, the handler is the one registered last, a lookup returns
\* exactly that, and a registration for one type leaves the other types' entries
\* as they were.
TableOf(owner) ==
  IF owner = "AnemoNetworkService" THEN message_handlers ELSE service_handlers
C13_TablesMatchLastRegistration ==
  \A owner \in {"AnemoNetworkService", "NetworkService"}, T \in MessageType :
    /\ T \in Keys(TableOf(owner)) <=> last_op[<<owner, T>>].op = "register"
    /\ T \in Keys(TableOf(owner)) => TableOf(owner)[T] = last_op[<<owner, T>>].handler
    /\ owner = "NetworkService" =>
         get_message_handler(T) = IF last_op[<<owner, T>>].op = "register"
                                  THEN Some(last_op[<<owner, T>>].handler) ELSE None
C13_OtherTypesUnchanged ==
  [][\A T \in MessageType :
       /\ last_op'[<<"NetworkService", T>>] = last_op[<<"NetworkService", T>>]
            => get_message_handler(T)' = get_message_handler(T)
       /\ (last_op'[<<"AnemoNetworkService", T>>] = last_op[<<"AnemoNetworkService", T>>]
           /\ T \in Keys(message_handlers))
            => T \in Keys(message_handlers') /\ message_handlers'[T] = message_handlers[T]
    ]_vars
C13_LastRegistrationWins == []C13_TablesMatchLastRegistration /\ C13_OtherTypesUnchanged
\* A registration replaced the handler of one type while the other type kept its own.
C13_Witness ==
  /\ last_op[<<"NetworkService", "chat">>] = Registered("timesync_handler", TRUE)
  /\ get_message_handler("chat") = Some("timesync_handler")
  /\ get_message_handler("timesync") = Some("chat_handler")
  /\ last_op[<<"AnemoNetworkService", "chat">>] = Registered("chat_handler", TRUE)
  /\ "timesync" \notin Keys(message_handlers)

\* The number of events of published that satisfy Is.
Count(evs, Is(_)) == Cardinality({n \in 1..Len(evs) : Is(evs[n])})
IsError(e) == e.kind = "Error"
InFlight(i) == incoming[i].pc \in {"publish_send", "publish_spawn", "lookup"}

\* C14: every return of handle_incoming_message is Ok, whether or not a handler
\* is registered and whatever the handler does afterwards; the failures of
\* handlers and the Error events published correspond one to one, and a failure
\* leaves the Ok already returned to the inbound caller as it is.
C14_InboundAlwaysOk ==
  /\ \A i \in 1..MaxInbound :
       /\ incoming[i].pc = "done" => incoming[i].ret = Ok(Unit)
       /\ dispatch[i].st # "none" => incoming[i].pc = "done"
  /\ Count(published, IsError)
       = Cardinality({i \in 1..MaxInbound : dispatch[i].st \in {"error_spawn", "error_done"}})
\* Both inbound messages were answered Ok, one without a handler; the handler of
\* the other failed and its Error event went out.
C14_Witness ==
  \E i \in 1..MaxInbound, j \in 1..MaxInbound :
    /\ incoming[i].ret = Ok(Unit) /\ dispatch[i].st = "error_done"
    /\ incoming[j].ret = Ok(Unit) /\ dispatch[j].st = "none"
    /\ Count(published, IsError) = 1

\* C15: handle_incoming_message publishes one MessageReceived event for its
\* message, before the lookup and so before the handler is invoked; when no
\* handler is registered for the type the call spawns nothing and publishes
\* nothing more, and no handler task or Error event ever follows for it.
IsReceived(i, e) == e = MessageReceived(Peer, incoming[i].message)
C15_OneReceivedEventFirst ==
  /\ [](\A i \in 1..MaxInbound :
          /\ incoming[i].pc # "none"
               => Cardinality({n \in 1..Len(published) : IsReceived(i, published[n])})
                    = IF incoming[i].pc = "publish_send" THEN 0 ELSE 1
          /\ dispatch[i].st # "none"
               => \E n \in 1..Len(published) : IsReceived(i, published[n]))
  /\ [][\A i \in 1..MaxInbound :
          /\ (incoming[i].pc = "lookup" /\ incoming'[i].pc = "done"
              /\ get_message_handler(incoming[i].message.message_type) = None)
               => dispatch'[i].st = "none" /\ published' = published
          /\ (incoming[i].pc = "done" /\ dispatch[i].st = "none")
               => dispatch'[i].st = "none"
     ]_vars
\* A message without a handler was dropped after its event; another was dispatched.
C15_Witness ==
  \E i \in 1..MaxInbound, j \in 1..MaxInbound :
    /\ incoming[i].pc = "done" /\ dispatch[i].st = "none"
    /\ incoming[i].message.message_type \notin Keys(service_handlers)
    /\ incoming[j].pc = "done" /\ dispatch[j].st = "running"
    /\ Len(published) = 2
    /\ Count(published, IsError) = 0

\* C16: the step that dispatches a message returns Ok at once, leaving the
\* handler task it spawned running; and every step of an inbound call in
\* progress can be taken whatever the handler tasks of other messages are doing,
\* one that never returns included.
C16_DispatchDoesNotWait ==
  /\ [](\A i \in 1..MaxInbound :
          /\ incoming[i].pc = "publish_send" => ENABLED HandleIncomingPublish(i)
          /\ incoming[i].pc = "publish_spawn" => ENABLED HandleIncomingSpawn(i)
          /\ incoming[i].pc = "lookup" => ENABLED HandleIncomingDispatch(i))
  /\ [][\A i \in 1..MaxInbound :
          (incoming[i].pc = "lookup" /\ incoming'[i].pc # "lookup")
            => /\ incoming'[i].pc = "done" /\ incoming'[i].ret = Ok(Unit)
               /\ get_message_handler(incoming[i].message.message_type) # None
                    => dispatch'[i].st = "running"
     ]_vars
\* The first call returned and its handler is still running while a later
\* message was dispatched and its handler returned.
C16_Witness ==
  /\ incoming[1].pc = "done" /\ dispatch[1].st = "running"
  /\ incoming[2].pc = "done" /\ dispatch[2].st = "ok"

\* The values receiver r has not read yet.
Backlog(r) == Len(channel) - receivers[r].next + 1
TasksOf(tasks, c) == {t \in tasks : t.call = c}

\* C17: a publish in progress can always take its next step, and that step goes
\* on to the spawning and then to the return: there is no state of the channel
\* (no receiver, receivers with a full backlog), of the handler table or of the
\* handler tasks (running for ever, timed out, panicked) in which publish waits
\* or ends otherwise.
C17_PublishNeverBlocks ==
  /\ [](\A k \in 1..MaxPublish :
          /\ pubs[k].pc = "send" => ENABLED PublishSendStep(k)
          /\ pubs[k].pc = "spawn" => ENABLED PublishSpawnStep(k))
  /\ [][\A k \in 1..MaxPublish :
          /\ (pubs[k].pc = "send" /\ pubs'[k].pc # "send") => pubs'[k].pc = "spawn"
          /\ (pubs[k].pc = "spawn" /\ pubs'[k].pc # "spawn") => pubs'[k].pc = "done"
     ]_vars
\* The last publish returned although the receiver's backlog was full before its
\* send and handler tasks of an earlier publish never returned or panicked.
C17_Witness ==
  /\ 1 \in Keys(receivers) /\ Backlog(1) > BufferSize
  /\ pubs[MaxBusPublish].pc = "done"
  /\ \E t \in event_tasks : t.st = "running" /\ t.call = <<"publish", 2>>
  /\ \E t \in event_tasks : t.st = "panicked" /\ t.call = <<"publish", 2>>

\* C18: the spawning step of publish adds one running task with the event for
\* each handler the table holds at that step and none else, leaving the tasks
\* of earlier publishes as they are; the end of a handler task (return, timeout,
\* panic) changes that task only; and the send puts the event in the channel
\* whenever a receiver exists, whatever the handler tasks do.
C18_EachHandlerOnce ==
  /\ [](\A t \in event_tasks, u \in event_tasks :
          (t.call = u.call /\ t.handler.name = u.handler.name) => t = u)
  /\ [][\A k \in 1..MaxPublish :
          /\ (pubs[k].pc = "spawn" /\ pubs'[k].pc = "done")
               => /\ TasksOf(event_tasks, <<"publish", k>>) = {}
                  /\ \A n \in Keys(handlers) :
                       Cardinality({t \in TasksOf(event_tasks', <<"publish", k>>) :
                                      /\ t.handler = handlers[n]
                                      /\ t.event = pubs[k].event
                                      /\ t.st = "running"}) = 1
                  /\ Cardinality(TasksOf(event_tasks', <<"publish", k>>))
                       = Cardinality(Keys(handlers))
                  /\ event_tasks \subseteq event_tasks'
          /\ (pubs[k].pc = "send" /\ pubs'[k].pc = "spawn" /\ Keys(receivers) # {})
               => channel' = Append(channel, pubs[k].event)
     ]_vars
  /\ [][\A t \in event_tasks :
          (t.st = "running" /\ t \notin event_tasks')
            => /\ event_tasks \ {t} \subseteq event_tasks'
               /\ channel' = channel /\ pubs' = pubs
     ]_vars
\* Both handlers of the first publish failed (one timed out, one panicked); the
\* second publish still ran both handlers and both events are in the channel.
C18_Witness ==
  /\ \E t \in TasksOf(event_tasks, <<"publish", 1>>) :
       t.handler.name = "log_handler" /\ t.st = "timeout"
  /\ \E t \in TasksOf(event_tasks, <<"publish", 1>>) :
       t.handler.name = "metrics_handler" /\ t.st = "panicked"
  /\ Cardinality(TasksOf(event_tasks, <<"publish", 2>>)) = 2
  /\ pubs[2].pc = "done"
  /\ channel = <<pubs[1].event, pubs[2].event>>

BusOp(n) == last_op[<<"EventBus", n>>]
\* C19: the handler table of the bus holds a name exactly when the last call
\* made for the name was a registration, and then holds the handler of that
\* call; handler_count is the number of such names; a registration under a name
\* already held leaves handler_count as it is, one under a new name adds one,
\* and unregistering a name that is not held changes nothing.
C19_RegistryIsUpsertRemoveMap ==
  /\ [](/\ \A n \in EventHandlerName :
             /\ n \in Keys(handlers) <=> BusOp(n).op = "register"
             /\ n \in Keys(handlers) => handlers[n] = BusOp(n).handler
        /\ handler_count
             = Cardinality({n \in EventHandlerName : BusOp(n).op = "register"}))
  /\ [][\A n \in EventHandlerName :
          BusOp(n)' # BusOp(n)
            => /\ (BusOp(n)'.op = "register" /\ BusOp(n)'.replaced)
                    => handler_count' = handler_count
               /\ (BusOp(n)'.op = "register" /\ ~BusOp(n)'.replaced)
                    => handler_count' = handler_count + 1
               /\ (BusOp(n)'.op = "unregister" /\ BusOp(n)'.removed)
                    => handler_count' = handler_count - 1
               /\ (BusOp(n)'.op = "unregister" /\ ~BusOp(n)'.removed)
                    => handlers' = handlers
     ]_vars
\* One name was registered twice, with another handler the second time; the
\* other name was unregistered while absent; a name once held was removed.
C19_Witness ==
  /\ BusOp("log_handler") = Registered([name |-> "log_handler", obj |-> "b"], TRUE)
  /\ handlers["log_handler"].obj = "b"
  /\ BusOp("metrics_handler") = Unregistered(FALSE)
  /\ handler_count = 1

\* The values receiver r can still read, and the position it reaches by reading
\* seen from position pos on (0 when seen is not what the channel held there).
Readable(r) ==
  Len(channel) - (IF receivers[r].next < Oldest(channel)
                  THEN Oldest(channel) ELSE receivers[r].next) + 1
RECURSIVE Walk(_, _)
Walk(seen, pos) ==
  IF seen = <<>> THEN pos
  ELSE IF Head(seen).ok
       THEN IF pos <= Len(channel) /\ channel[pos] = Head(seen).val
            THEN Walk(Tail(seen), pos + 1) ELSE 0
       ELSE IF Head(seen).detail > 0
            THEN Walk(Tail(seen), pos + Head(seen).detail) ELSE 0
RecvAnswered(r, res) ==
  /\ r \in Keys(receivers) /\ r \in Keys(receivers')
  /\ receivers'[r].seen = Append(receivers[r].seen, res)

\* C20 as stated: a receiver never has more than C values left to read.
C20_BacklogAtMostCapacity ==
  \A r \in Keys(receivers) : Readable(r) <= capacity

\* C20: the ring holds the last B values sent, B the least power of two that is
\* at least C. What a receiver has read is, in send order, every value sent since
\* it subscribed except the runs a Lagged(n) stands for; recv answers Lagged(n)
\* only when more than B values are unread, n being the oldest ones beyond B,
\* and goes on from the oldest value held; a receiver at most C behind reads its
\* next value. A recv changes that receiver only, and a send is always possible
\* and stores the value when a receiver exists, however far behind any is.
C20_IndependentBoundedBacklog ==
  /\ [](/\ capacity <= BufferSize /\ BufferSize < 2 * capacity
        /\ \A r \in Keys(receivers) :
             /\ Walk(receivers[r].seen, receivers[r].since) = receivers[r].next
             /\ Readable(r) <= BufferSize
        /\ \A k \in 1..MaxPublish : pubs[k].pc = "send" => ENABLED PublishSendStep(k))
  /\ [][\A r \in Keys(receivers) :
          /\ receivers'[r] # receivers[r]
               => /\ channel' = channel /\ pubs' = pubs
                  /\ \A q \in Keys(receivers) \ {r} : receivers'[q] = receivers[q]
                  /\ Backlog(r) <= BufferSize
                       => RecvAnswered(r, Ok(channel[receivers[r].next]))
                  /\ Backlog(r) > BufferSize
                       => /\ RecvAnswered(r, Lagged(Backlog(r) - BufferSize))
                          /\ Readable(r)' = BufferSize
          /\ \A k \in 1..MaxPublish :
               (pubs[k].pc = "send" /\ pubs'[k].pc = "spawn")
                 => /\ channel' = Append(channel, pubs[k].event)
                    /\ receivers' = receivers
     ]_vars
\* With C = 3 the first receiver kept up and read all five events; the second
\* read nothing until the fifth was sent, then lost the first event only.
C20_Witness ==
  /\ capacity = 3
  /\ Keys(receivers) = 1..2
  /\ receivers[1].seen = [k \in 1..MaxPublish |-> Ok(pubs[k].event)]
  /\ receivers[2].since = 1
  /\ receivers[2].seen = <<Lagged(1), Ok(pubs[2].event)>>

\* The calls of operation op made so far, and what became of them.
CallsOf(op) == {c \in 1..MaxTsCalls : ts_calls[c].op = op}
Rejected(c) ==
  /\ ts_calls[c].pc = "done"
  /\ ~ts_calls[c].ret.ok
  /\ ts_calls[c].ret.kind \in {"InvalidTimestamp", "InvalidSyncInterval", "panic"}
Distance(a, b) == IF a < b THEN b - a ELSE a - b
WithinOneHour(c) == Distance(ts_calls[c].received_at, ts_calls[c].client_time) <= MaxTimeDiff
OnWireOf(c) == {n \in 1..Len(wire) : wire[n].call = c}
\* No request so far had a timestamp whose distance from the clock overflows.
TimestampsWithinOneHour ==
  \A c \in 1..MaxTsCalls : ts_calls[c].op # "none" => WithinOneHour(c)

\* C21: a time request passes the validation exactly when its timestamp is at
\* most MaxTimeDiff away from the clock value it was validated at, in the past
\* or in the future, and is otherwise answered InvalidTimestamp(timestamp).
C21_AcceptsIffWithinOneHour ==
  \A c \in CallsOf("time") :
    IF WithinOneHour(c) THEN ~Rejected(c)
    ELSE ts_calls[c].pc = "done"
           /\ ts_calls[c].ret = InvalidTimestamp(ts_calls[c].client_time)

\* C22 as stated: a time request with a timestamp within the hour that passed
\* the validation and whose handling ended has exactly one TimeResponse on the
\* wire.
C22_ExactlyOneResponse ==
  \A c \in CallsOf("time") :
    (ts_calls[c].pc = "done" /\ WithinOneHour(c) /\ ~Rejected(c))
      => Cardinality(OnWireOf(c)) = 1

\* C22: a time request never has more than one TimeResponse on the wire; the one
\* it has is addressed to the requesting peer, carries its request_id and its
\* client_timestamp, and a server_timestamp that is not earlier than the clock
\* value the request was received at; it has one when unicast handed the message
\* to the transport (so whenever handle_time_request returns Ok) and none when
\* the request was rejected or unicast failed before the transport call.
C22_AtMostOneResponse ==
  \A c \in CallsOf("time") :
    /\ Cardinality(OnWireOf(c)) <= 1
    /\ \A n \in OnWireOf(c) :
         /\ wire[n].kind = "TimeResponse"
         /\ wire[n].to = ts_calls[c].from
         /\ wire[n].request_id = ts_calls[c].request_id
         /\ wire[n].client_timestamp = ts_calls[c].client_time
         /\ wire[n].server_timestamp >= ts_calls[c].received_at
    /\ (ts_calls[c].pc \in {"remove", "stats"} \/ ts_calls[c].ret = Ok(Unit)
        \/ ts_calls[c].ret = NetworkError("SendError"))
         => Cardinality(OnWireOf(c)) = 1
    /\ (Rejected(c) \/ ts_calls[c].ret = NetworkError("NodeNotFound")
        \/ ts_calls[c].pc \in {"insert", "send", "unicast"})
         => OnWireOf(c) = {}
\* One request was answered, after the clock had advanced; the other passed the
\* validation and got no response because unicast did not know the peer.
C22_Witness ==
  /\ ts_calls[1].ret = Ok(Unit)
  /\ \E n \in OnWireOf(1) : wire[n].server_timestamp > ts_calls[1].received_at
  /\ ts_calls[2].ret = NetworkError("NodeNotFound")
  /\ WithinOneHour(2)
  /\ OnWireOf(2) = {}

\* C23: when no handle_time_request call is in progress, pending_requests is
\* empty (stated for requests with timestamps within the hour).
C23_NoEntryOutsideCalls ==
  (TimestampsWithinOneHour /\ \A c \in 1..MaxTsCalls : ts_calls[c].pc \in {"none", "done"})
    => pending_requests = <<>>

\* C24: a sync request whose timestamp is within the hour is answered
\* InvalidSyncInterval exactly when its interval is below MinSyncInterval or
\* above MaxSyncInterval; one whose timestamp and interval are both invalid is
\* answered InvalidTimestamp.
BadInterval(c) ==
  ts_calls[c].sync_interval_ms < MinSyncInterval
    \/ ts_calls[c].sync_interval_ms > MaxSyncInterval
C24_ValidTimestampIntervalChecked ==
  \A c \in CallsOf("sync") :
    WithinOneHour(c)
      => (ts_calls[c].ret = InvalidSyncInterval(ts_calls[c].sync_interval_ms)
            <=> BadInterval(c))
C24_IntervalCheckedAfterTimestamp ==
  /\ C24_ValidTimestampIntervalChecked
  /\ \A c \in CallsOf("sync") :
       (~WithinOneHour(c) /\ BadInterval(c))
         => ts_calls[c].ret = InvalidTimestamp(ts_calls[c].client_time)

\* The sync calls from peer p that passed the validation, and those of them that
\* have updated the session.
Accepted(p) == {c \in CallsOf("sync") : ts_calls[c].from = p /\ ~Rejected(c)}
Applied(p) == {c \in Accepted(p) : ts_calls[c].pc # "session"}
\* C25: sync_sessions holds a session for exactly the peers with an accepted
\* request that has reached the update, under the peer's own key, with
\* request_count the number of such requests (all the accepted ones once none is
\* waiting for the update); an update sets offset, interval and last_sync_time
\* to those of its request, adds one to request_count, and leaves the sessions
\* of other peers as they are; nothing else changes a session.
C25_OneSessionPerPeer ==
  /\ [](\A p \in SyncPeer :
          /\ p \in Keys(sync_sessions) <=> Applied(p) # {}
          /\ p \in Keys(sync_sessions)
               => /\ sync_sessions[p].node_id = p
                  /\ sync_sessions[p].request_count = Cardinality(Applied(p))
                  /\ Applied(p) = Accepted(p)
                       => sync_sessions[p].request_count = Cardinality(Accepted(p)))
  /\ [][\A c \in 1..MaxTsCalls :
          IF ts_calls[c].pc = "session" /\ ts_calls'[c].pc # "session"
          THEN LET p == ts_calls[c].from IN
               /\ Keys(sync_sessions') = Keys(sync_sessions) \cup {p}
               /\ sync_sessions'[p].time_offset_ms = ts_calls[c].time_offset_ms
               /\ sync_sessions'[p].sync_interval_ms = ts_calls[c].sync_interval_ms
               /\ sync_sessions'[p].last_sync_time = ts_calls[c].server_time
               /\ sync_sessions'[p].request_count
                    = IF p \in Keys(sync_sessions)
                      THEN sync_sessions[p].request_count + 1 ELSE 1
               /\ \A q \in Keys(sync_sessions) \ {p} : sync_sessions'[q] = sync_sessions[q]
          ELSE (\A b \in 1..MaxTsCalls :
                  ~(ts_calls[b].pc = "session" /\ ts_calls'[b].pc # "session"))
                 => sync_sessions' = sync_sessions
     ]_vars
\* Two requests of one peer, handled concurrently, updated the one session: the
\* first to 1, the second to 2 with its own interval.
C25_Witness ==
  /\ Keys(sync_sessions) = {NodeIdOf(1)}
  /\ sync_sessions[NodeIdOf(1)].request_count = 2
  /\ sync_sessions[NodeIdOf(1)].call = 2
  /\ ts_calls[1].pc = "send"
  /\ ts_calls[1].sync_interval_ms # ts_calls[2].sync_interval_ms
  /\ sync_sessions[NodeIdOf(1)].sync_interval_ms = ts_calls[2].sync_interval_ms

\* C29: once no call is between its response and its update of the statistics,
\* total_responses is the number of sync responses sent with success, and the
\* average, recomputed with that counter as divisor, is a finite number (stated
\* for requests with timestamps within the hour).
C29_ResponsesCountedAndAveraged ==
  (TimestampsWithinOneHour /\ \A c \in 1..MaxTsCalls : ts_calls[c].pc # "stats")
    => /\ stats.total_responses
            = Cardinality({c \in CallsOf("sync") : ts_calls[c].ret = Ok(Unit)})
       /\ stats.avg_response_time_ms.kind = "finite"

\* C30: every SyncResponse on the wire carries the request_id and the
\* client_time of its request and time_offset_ms = server_time - client_time,
\* and the session its request wrote holds the offset sent (stated for requests
\* with timestamps within the hour).
C30_OffsetIsServerMinusClient ==
  \A n \in 1..Len(wire) :
    (wire[n].kind = "SyncResponse" /\ WithinOneHour(wire[n].call))
      => /\ wire[n].request_id = ts_calls[wire[n].call].request_id
         /\ wire[n].client_time = ts_calls[wire[n].call].client_time
         /\ wire[n].time_offset_ms = wire[n].server_time - wire[n].client_time
         /\ sync_sessions[wire[n].to].call = wire[n].call
              => sync_sessions[wire[n].to].time_offset_ms = wire[n].time_offset_ms

\* The call of hb_calls just made by this step, if any.
HbCalled == Len(hb_calls') = Len(hb_calls) + 1
HbLast == hb_calls'[Len(hb_calls')]
\* C26: start_heartbeat succeeds exactly when no heartbeat is started and fails
\* with HeartbeatAlreadyStarted otherwise, leaving the handle and the running
\* task with its interval as they were; stop_heartbeat succeeds exactly when one
\* is started, leaves none started, and fails with HeartbeatNotStarted otherwise,
\* changing nothing; a start that follows a successful stop succeeds, with a new
\* task of the requested interval.
C26_StartStopByHandle ==
  /\ [](\A i \in 1..Len(hb_calls) :
          /\ hb_calls[i].op = "start"
               => /\ hb_calls[i].ret.ok <=> hb_calls[i].handle = None
                  /\ ~hb_calls[i].ret.ok => hb_calls[i].ret = HeartbeatAlreadyStarted
          /\ hb_calls[i].op = "stop"
               => /\ hb_calls[i].ret.ok <=> IsSome(hb_calls[i].handle)
                  /\ ~hb_calls[i].ret.ok => hb_calls[i].ret = HeartbeatNotStarted
          /\ (i > 1 /\ hb_calls[i].op = "start" /\ hb_calls[i - 1].op = "stop"
                /\ hb_calls[i - 1].ret.ok)
               => hb_calls[i].ret.ok)
  /\ [][HbCalled =>
          /\ hb_calls' = Append(hb_calls, HbLast)
          /\ HbLast.handle = heartbeat_handle
          /\ ~HbLast.ret.ok => heartbeat_handle' = heartbeat_handle /\ hb_tasks' = hb_tasks
          /\ (HbLast.ret.ok /\ HbLast.op = "stop") => heartbeat_handle' = None
          /\ (HbLast.ret.ok /\ HbLast.op = "start")
               => /\ IsSome(heartbeat_handle')
                  /\ hb_tasks[Unwrap(heartbeat_handle')].st = "none"
                  /\ hb_tasks'[Unwrap(heartbeat_handle')].interval_ms = HbLast.interval_ms
                  /\ \A h \in 1..MaxHbTasks \ heartbeat_handle' : hb_tasks'[h] = hb_tasks[h]
     ]_vars
\* A start, a refused second start with another interval while the first task
\* runs, a stop, a refused second stop, and a start that succeeds again.
C26_Witness ==
  /\ Len(hb_calls) = 5
  /\ hb_calls[1].op = "start" /\ hb_calls[1].ret.ok
  /\ hb_calls[2].op = "start" /\ hb_calls[2].ret = HeartbeatAlreadyStarted
  /\ hb_calls[2].interval_ms # hb_calls[1].interval_ms
  /\ hb_calls[3].op = "stop" /\ hb_calls[3].ret.ok
  /\ hb_calls[4].op = "stop" /\ hb_calls[4].ret = HeartbeatNotStarted
  /\ hb_calls[5].op = "start" /\ hb_calls[5].ret.ok
  /\ hb_tasks[1].interval_ms = hb_calls[1].interval_ms
  /\ hb_tasks[2].interval_ms = hb_calls[5].interval_ms

\* C27: once stop_heartbeat has returned success for a task, that task does not
\* increment the sequence counter again and starts no further broadcast.
C27_NothingAfterStop ==
  [][\A h \in 1..MaxHbTasks :
       hb_tasks[h].abort
         => /\ ~(hb_tasks[h].pc = "incr" /\ hb_tasks'[h].pc = "broadcast")
            /\ ~(hb_tasks[h].pc = "broadcast" /\ hb_tasks'[h].pc = "sent")]_vars

\* C28: every broadcast carries a value the counter has reached, and the
\* sequence numbers of the broadcasts, in the order they are started, are
\* strictly increasing (so none is used twice).
C28_SequenceStrictlyIncreasing ==
  /\ \A i \in 1..Len(hb_broadcasts) :
       hb_broadcasts[i].sequence \in 1..heartbeat_sequence
  /\ \A i, j \in 1..Len(hb_broadcasts) :
       i < j => hb_broadcasts[i].sequence < hb_broadcasts[j].sequence
\* The part of C28 that the late abort leaves intact: no sequence number is
\* broadcast twice.
C28_SequenceNeverReused ==
  \A i, j \in 1..Len(hb_broadcasts) :
    i # j => hb_broadcasts[i].sequence # hb_broadcasts[j].sequence

\* C31: the step of connect_to_known_servers_delayed that registers a successful
\* connect leaves the registry with an entry for the connected peer under a
\* NodeId other than the connecting node's, and with the connecting node's own
\* NodeId still mapped to its own transport handle.
C31_ConnectAddsPeerKeepsSelf ==
  [][\A t \in Task :
       (pc[t] = "conn_G" /\ pc'[t] # "conn_G")
         => LET own == Unwrap(loc[t].local_id)
                peer == Unwrap(loc[t].peer_id)
            IN /\ \E n \in Keys(GLOBAL_NODES') \ {own} : GLOBAL_NODES'[n] = peer
               /\ own \in Keys(GLOBAL_NODES')
               /\ GLOBAL_NODES'[own] = PeerIdOfKey(PrivateKey(call[t].svc))]_vars

\* An operation in progress, and one that waits for a lock it cannot be given
\* before another task releases it.
InCall(t) == pc[t] \notin {"idle", "done"}
Blocked(t) ==
  /\ InCall(t)
  /\ Want(t)[2] # "none"
  /\ ~Holds(locks, Want(t)[1], t)
  /\ Queued(locks, Want(t)[1], t) \/ ~CanTake(locks, Want(t)[1], Want(t)[2])
\* C33: no lock-order deadlock: whenever operations are in progress, one of
\* them is not waiting for a lock (it can go on, or it awaits a transport call
\* that returns), so that every operation can still return.
C33_NoLockOrderDeadlock ==
  (\E t \in DOMAIN pc : InCall(t)) => \E t \in DOMAIN pc : InCall(t) /\ ~Blocked(t)

\* The heartbeat tasks that still run or wait for a tick.
LiveHbTasks == {h \in 1..MaxHbTasks : hb_tasks[h].st \in {"suspended", "running"}}
\* C32: at most one heartbeat task is alive at any time, and a task performs no
\* tick (no increment of the sequence, no broadcast) once a later task has been
\* created by a start_heartbeat that followed its stop.
C32_OneHeartbeatTask ==
  /\ [](Cardinality(LiveHbTasks) <= 1)
  /\ [][\A h, g \in 1..MaxHbTasks :
          (h < g /\ hb_tasks[g].st # "none")
            => /\ hb_tasks'[h].sequence = hb_tasks[h].sequence
               /\ \A i \in 1..Len(hb_broadcasts') :
                    hb_broadcasts'[i].task = h => i <= Len(hb_broadcasts)]_vars

\* C34: a unicast of a Running service whose own start or stop is not in
\* progress, to a target that is in the registry, does not fail with a
\* configuration or node-not-found error, whatever the other tasks do.
C34_UnicastResolvesRegisteredTarget ==
  [][\A t \in Task :
       (call[t].op = "unicast" /\ Stepped(t) /\ pc'[t] = "done"
        /\ is_running[call[t].svc] /\ IsSome(network[call[t].svc])
        /\ Unwrap(call[t].target) \in Keys(GLOBAL_NODES)
        /\ \A u \in Task \ {t} :
             call[u].svc = call[t].svc => call[u].op \notin {"start", "stop"})
         => \/ ret'[t].ok
            \/ ret'[t].kind \notin {"ConfigError", "NodeNotFound"}]_vars

\* A request the validation turned down (or that ended in it), and the step in
\* which that happens.
RequestCalls == CallsOf("time") \cup CallsOf("sync")
Rejects(c) ==
  /\ ts_calls[c].op = "none"
  /\ ts_calls'[c].op \in {"time", "sync"}
  /\ ts_calls'[c].pc = "done"
\* C35: a time or sync request rejected by the validation changes neither the
\* messages sent, nor the in-flight map, nor the sessions, nor the statistics,
\* and nothing of it appears in them afterwards.
C35_RejectionChangesNothing ==
  /\ [](\A c \in RequestCalls :
          Rejected(c)
            => /\ OnWireOf(c) = {}
               /\ \A k \in Keys(pending_requests) : pending_requests[k].call # c
               /\ \A p \in Keys(sync_sessions) : sync_sessions[p].call # c)
  /\ [][\A c \in 1..MaxTsCalls :
          Rejects(c) => /\ wire' = wire
                        /\ pending_requests' = pending_requests
                        /\ sync_sessions' = sync_sessions
                        /\ stats' = stats]_vars
\* A time request rejected for its timestamp and a sync request rejected for its
\* interval, after which nothing was sent, stored or counted.
C35_Witness ==
  /\ ts_calls[1].op = "time" /\ ts_calls[1].ret = InvalidTimestamp(ts_calls[1].client_time)
  /\ ts_calls[2].op = "sync"
  /\ ts_calls[2].ret = InvalidSyncInterval(ts_calls[2].sync_interval_ms)
  /\ wire = <<>> /\ pending_requests = <<>> /\ sync_sessions = <<>>
  /\ stats.total_requests = 0 /\ stats.last_sync_time = None

\* The sync requests of peer p that returned success, and those in progress.
Succeeded(p) ==
  {c \in CallsOf("sync") : ts_calls[c].from = p /\ ts_calls[c].pc = "done" /\ ts_calls[c].ret.ok}
InProgress(p) == {c \in CallsOf("sync") : ts_calls[c].from = p /\ ts_calls[c].pc # "done"}
\* C36: a handle_sync_request that returns an error leaves no trace in the
\* sessions: while none of a peer's requests is in progress, the peer has a
\* session exactly when one of its requests succeeded, the session counts the
\* requests that succeeded and carries the values of one of them (stated for
\* requests with timestamps within the hour).
C36_FailedSyncLeavesSessionUnchanged ==
  \A p \in SyncPeer :
    (TimestampsWithinOneHour /\ InProgress(p) = {})
      => /\ p \in Keys(sync_sessions) <=> Succeeded(p) # {}
         /\ p \in Keys(sync_sessions)
              => /\ sync_sessions[p].request_count = Cardinality(Succeeded(p))
                 /\ sync_sessions[p].call \in Succeeded(p)

\* No time-sync request is being handled.
Quiescent == \A c \in 1..MaxTsCalls : ts_calls[c].pc \in {"none", "done"}
\* C37: whenever no time-sync request is being handled, active_sessions is the
\* number of sessions and total_requests the number of time and sync requests
\* that returned success (stated for requests with timestamps within the hour).
C37_StatsMatchSessionsAndCalls ==
  (TimestampsWithinOneHour /\ Quiescent)
    => /\ stats.active_sessions = Cardinality(Keys(sync_sessions))
       /\ stats.total_requests
            = Cardinality({c \in RequestCalls : ts_calls[c].pc = "done" /\ ts_calls[c].ret.ok})

\* C38: a message handled causes at most one outbound message, the response of
\* a TimeRequest or SyncRequest addressed to its sender; a TimeResponse,
\* SyncResponse or Heartbeat causes none, and handling it changes neither the
\* messages sent, nor the sessions, nor the in-flight map, nor the statistics.
C38_NoMessageLoop ==
  /\ [](\A c \in 1..MaxTsCalls :
          /\ Cardinality(OnWireOf(c)) <= 1
          /\ ts_calls[c].op \in InfoKind => OnWireOf(c) = {}
          /\ \A n \in OnWireOf(c) :
               /\ wire[n].to = ts_calls[c].from
               /\ wire[n].kind = IF ts_calls[c].op = "time" THEN "TimeResponse"
                                 ELSE "SyncResponse")
  /\ [][\A c \in 1..MaxTsCalls :
          (ts_calls[c].op = "none" /\ ts_calls'[c].op \in InfoKind)
            => /\ wire' = wire
               /\ pending_requests' = pending_requests
               /\ sync_sessions' = sync_sessions
               /\ stats' = stats]_vars
\* A sync request was answered with its one response, and the response a peer
\* sent back was then handled without another message.
C38_Witness ==
  /\ ts_calls[1].op = "sync" /\ ts_calls[1].ret = Ok(Unit)
  /\ ts_calls[2].op = "SyncResponse" /\ ts_calls[2].pc = "done"
  /\ Len(wire) = 1 /\ wire[1].kind = "SyncResponse" /\ wire[1].to = ts_calls[1].from

\* A start or a stop of service s is in progress.
StartOrStopInProgress(s) ==
  \E t \in Task : /\ call[t].svc = s /\ call[t].op \in {"start", "stop"}
                  /\ pc[t] \notin {"idle", "done"}
\* C39: a newly created service is Stopped with no network handle and no local
\* NodeId; whenever no start or stop of a service is in progress it is Running
\* iff its network handle is present iff its local NodeId is set (which is when
\* get_local_node_id succeeds); a start that fails in the bind leaves the
\* service Stopped and changes neither the registry nor any service's state.
C39_FlagHandleAndIdAgree ==
  /\ \A s \in Svc : ~is_running[s] /\ network[s] = None /\ local_node_id[s] = None
  /\ [](\A s \in Svc :
          ~StartOrStopInProgress(s)
            => /\ is_running[s] <=> IsSome(network[s])
               /\ is_running[s] <=> IsSome(local_node_id[s]))
  /\ [][\A t \in Task :
          /\ (pc[t] = "glid_L" /\ Stepped(t))
               => (ret'[t].ok <=> IsSome(local_node_id[call[t].svc]))
          /\ (pc[t] = "start_R" /\ Returned(t) /\ ret'[t] = connection_error("bind failed"))
               => /\ ~is_running'[call[t].svc]
                  /\ UNCHANGED <<GLOBAL_NODES, is_running, local_node_id, network>>]_vars
\* One service runs with its handle and its NodeId set after its start, a start
\* of another failed in the bind and left it Stopped, and no start or stop is in
\* progress.
C39_Witness ==
  \E t \in Task, u \in Task :
    /\ t # u /\ pc[t] = "done" /\ pc[u] = "done"
    /\ call[t].op = "start" /\ ret[t] = Ok(Unit)
    /\ call[u].op = "start" /\ ret[u] = connection_error("bind failed")
    /\ call[t].svc # call[u].svc
    /\ is_running[call[t].svc] /\ IsSome(network[call[t].svc])
    /\ IsSome(local_node_id[call[t].svc])
    /\ ~is_running[call[u].svc] /\ network[call[u].svc] = None

\* C40: users and username_to_peer are mutually inverse (so no two joined users
\* share a username), and a user_join whose username is in use adds no user.
C40_UserTablesInverse ==
  /\ [](/\ \A p \in Keys(users) :
             /\ users[p].username \in Keys(username_to_peer)
             /\ username_to_peer[users[p].username] = p
        /\ \A n \in Keys(username_to_peer) :
             /\ username_to_peer[n] \in Keys(users)
             /\ users[username_to_peer[n]].username = n)
  /\ [][\A c \in 1..MaxChatCalls :
          (chat_calls[c].pc = "insert" /\ chat_calls'[c].pc = "done")
            => chat_calls[c].username \notin Keys(username_to_peer)]_vars

====
